---------------------------- MODULE Spec2Model ----------------------------
(***************************************************************************)
(* A model of the search-and-ranking pipeline of paper-slack-bot:          *)
(* BooleanQueryParser and SearchEngine (search/search_engine.py), the      *)
(* relevance scorer LLMFilter (filtering/llm_filter.py) and the sentinel   *)
(* match of the Slack formatter (slack/formatter.py).                      *)
(*                                                                         *)
(* Python strings are sequences of one-character strings, so that          *)
(* substring tests, case folding and tokenisation are computed and not     *)
(* assumed.                                                                *)
(***************************************************************************)
EXTENDS Integers, Sequences, FiniteSets, TLC

VARIABLES
    qlex,       \* the lexemes (words, quoted phrases) the query string was typed from
    query,      \* the query string handed to BooleanQueryParser.parse
    parsed,     \* the dict parse returned
    text,       \* the text handed to BooleanQueryParser.matches
    matched,    \* what matches returned
    qop,        \* the parser operation that ran last: "new", "parse" or "matches"
    mode,       \* the scorer's entry point in use: "score", "filter" or "single"
    papers,     \* the papers handed to the scorer
    batch_size, \* the batch size of score_papers
    min_score,  \* the threshold of filter_papers
    pos,        \* the loop variable i of score_papers: the papers scored so far
    reply,      \* what the oracle call of the current batch ended with
    results,    \* the list of RelevanceResult built so far
    failed,     \* the papers of the batches whose oracle call failed
    relevance_score,        \* Paper.relevance_score of every paper
    relevance_explanation,  \* Paper.relevance_explanation of every paper
    filtered,   \* the list filter_papers returned
    lpc,        \* where the scorer is: "idle", "call", "reply" or "done"
    search_query,    \* the query string handed to SearchEngine.search
    search_papers,   \* the papers handed to search
    search_filters,  \* the SearchFilters handed to search, or None
    use_semantic,    \* the parameter use_semantic of search
    user_id,         \* the parameter user_id of search
    semantic_search, \* SearchEngine.semantic_search: "none", or the state of its model
    ranking,         \* the (paper, score) tuples SemanticSearch.search returned
    returned,        \* the list search returned
    history,         \* the rows of search_history
    spc,             \* where search is: "idle", "done" or "raised"
    _client,         \* LLMFilter._client
    _model,          \* SemanticSearch._model
    _model_load_attempted,  \* SemanticSearch._model_load_attempted
    client_built,    \* how many times OpenAI(...) was constructed
    model_built,     \* how many times SentenceTransformer(...) was constructed
    tcall,           \* the property each calling thread reads: "client" or "model"
    tpc,             \* where each calling thread is in the property
    tlocal,          \* the handle each calling thread built, then the one it got
    jconfig,         \* JournalFilter.config
    jop,             \* the JournalFilter operation that ran last, "new" when none has
    jname,           \* the journal name handed to get_journal_tier
    jtier,           \* what get_journal_tier returned
    jinfo,           \* what get_journal_info returned
    jpapers,         \* the papers handed to JournalFilter.filter_papers
    jargs,           \* the arguments of that call
    jfiltered,       \* the list JournalFilter.filter_papers returned
    rows,            \* the rows of the table papers, in the order of their ids
    dop,             \* the Database operation that ran last, "raised" when it raised
    dpapers,         \* the papers handed to save_paper or save_papers
    dids,            \* the ids save_paper or save_papers returned
    ddois,           \* the DOIs handed to paper_exists or get_existing_dois
    dfound,          \* the DOIs of those that the store reported as present
    filter_returns,  \* what the bot's journal_filter.filter_papers returns: "list" or "pair"
    channel,         \* the papers each digest run, in turn, showed in the channel
    gskipped,        \* how many papers the last run left out as already reported
    gout,            \* how the last run ended
    fop,             \* the PaperFetcher method called: "fetch_all" or "search"
    fdatabases,      \* its argument databases
    ftasks,          \* the database of each task handed to asyncio.gather
    fresults,        \* what each task ended with, in the order of the tasks
    fpapers,         \* the list the method returned
    fpc,             \* where the call is: "idle", "gather", "returned" or "raised"
    bpapers,         \* the papers handed to format_digest
    digest_blocks,   \* the blocks format_digest returned
    block_batches,   \* what split_blocks made of them
    messages,        \* the block lists posted so far, one per message
    bpc,             \* where the posting is: "idle", "posting", "done" or "failed"
    user_preference, \* the row of the user in user_preferences, or None
    stored_before,   \* the row as it was before the commands
    hpc,             \* where each /papersubscribe handler is: "idle", "read" or "done"
    hkeywords,       \* the keywords of the command of each handler
    hpref            \* what get_user_preference returned to each handler

qvars == <<qlex, query, parsed, text, matched, qop>>

lvars == <<mode, papers, batch_size, min_score, pos, reply, results, failed,
           relevance_score, relevance_explanation, filtered, lpc>>

svars == <<search_query, search_papers, search_filters, use_semantic, user_id,
           semantic_search, ranking, returned, history, spc>>

cvars == <<_client, _model, _model_load_attempted, client_built, model_built, tcall,
           tpc, tlocal>>

jvars == <<jconfig, jop, jname, jtier, jinfo, jpapers, jargs, jfiltered>>

dvars == <<rows, dop, dpapers, dids, ddois, dfound>>

gvars == <<filter_returns, channel, gskipped, gout>>

fvars == <<fop, fdatabases, ftasks, fresults, fpapers, fpc>>

bvars == <<bpapers, digest_blocks, block_batches, messages, bpc>>

uvars == <<user_preference, stored_before, hpc, hkeywords, hpref>>

vars == <<qvars, lvars, svars, cvars, jvars, dvars, gvars, fvars, bvars, uvars>>

\* what the actions of one component leave alone
QFrame == UNCHANGED <<lvars, svars, cvars, jvars, dvars, gvars, fvars, bvars, uvars>>
LFrame == UNCHANGED <<qvars, svars, cvars, jvars, dvars, gvars, fvars, bvars, uvars>>
SFrame == UNCHANGED <<qvars, lvars, cvars, jvars, dvars, gvars, fvars, bvars, uvars>>
CFrame == UNCHANGED <<qvars, lvars, svars, jvars, dvars, gvars, fvars, bvars, uvars>>
JFrame == UNCHANGED <<qvars, lvars, svars, cvars, dvars, gvars, fvars, bvars, uvars>>
DFrame == UNCHANGED <<qvars, lvars, svars, cvars, jvars, gvars, fvars, bvars, uvars>>
GFrame == UNCHANGED <<qvars, lvars, svars, cvars, filter_returns, fvars, bvars, uvars>>
FFrame == UNCHANGED <<qvars, lvars, svars, cvars, jvars, dvars, gvars, bvars, uvars>>
BFrame == UNCHANGED <<qvars, lvars, svars, cvars, jvars, dvars, gvars, fvars, uvars>>
UFrame == UNCHANGED <<qvars, lvars, svars, cvars, jvars, dvars, gvars, fvars, bvars>>

-----------------------------------------------------------------------------
(* Bounds of the model.                                                    *)

\* the longest query, in lexemes
MaxTokens == 3
\* the longest text matches is tried on, in characters
MaxTextLen == 3
\* the most papers handed to the scorer
MaxPapers == 3
\* the longest oracle response, in tokens
MaxResp == 3
\* the longest oracle response when several batches are scored, in tokens
MaxShortResp == 1
\* the most batches of one call of score_papers
MaxBatches == 2
\* the longest list of papers handed to search
MaxSearchPapers == 2
\* the handlers that run at the same time
NumCallers == 2
\* the longest list of papers handed to the journal filter
MaxJournalPapers == 2
\* the most rows of the table papers
MaxRows == 2
\* the longest list of papers handed to save_papers
MaxSaved == 2
\* the longest list of DOIs handed to get_existing_dois
MaxAsked == 1
\* the most papers fetch_all returns in one digest run
MaxFetched == 2
\* the most digest runs
MaxRuns == 2
\* the longest list of databases handed to fetch_all or search
MaxDatabases == 2
\* the most terms and operators of a query of chained terms
MaxChainTokens == 5
\* the most papers of a digest handed to the formatter
MaxDigestPapers == 24
\* the most tokens of a response to filter_papers called by the bot
MaxFilterResp == 2

-----------------------------------------------------------------------------
(* Strings.                                                                *)

\* an attribute that is None holds no value
None == <<>>

\* an attribute that holds the value v
Some(v) == <<v>>

LowerLetters == <<"a", "b", "c", "d", "e", "f", "g", "h", "i", "j", "k", "l", "m",
                  "n", "o", "p", "q", "r", "s", "t", "u", "v", "w", "x", "y", "z">>
UpperLetters == <<"A", "B", "C", "D", "E", "F", "G", "H", "I", "J", "K", "L", "M",
                  "N", "O", "P", "Q", "R", "S", "T", "U", "V", "W", "X", "Y", "Z">>

\* str.upper() and str.lower(), one character at a time
UpperC(c) ==
    IF \E i \in 1..26 : LowerLetters[i] = c
    THEN UpperLetters[CHOOSE i \in 1..26 : LowerLetters[i] = c]
    ELSE c

LowerC(c) ==
    IF \E i \in 1..26 : UpperLetters[i] = c
    THEN LowerLetters[CHOOSE i \in 1..26 : UpperLetters[i] = c]
    ELSE c

Upper(s) == [i \in 1..Len(s) |-> UpperC(s[i])]

Lower(s) == [i \in 1..Len(s) |-> LowerC(s[i])]

\* Python's  s in t  for two strings
IsSubstr(s, t) ==
    \E i \in 0..(Len(t) - Len(s)) : SubSeq(t, i + 1, i + Len(s)) = s

\* str.find(c, i): the first index >= i that holds c, 0 when there is none
RECURSIVE FindFrom(_, _, _)
FindFrom(s, c, i) ==
    IF i > Len(s) THEN 0
    ELSE IF s[i] = c THEN i
    ELSE FindFrom(s, c, i + 1)

\* str.split(): the maximal runs of non-blank characters, in order
RECURSIVE SplitFrom(_, _, _)
SplitFrom(s, i, cur) ==
    IF i > Len(s) THEN (IF cur = <<>> THEN <<>> ELSE <<cur>>)
    ELSE IF s[i] = " "
         THEN (IF cur = <<>> THEN <<>> ELSE <<cur>>) \o SplitFrom(s, i + 1, <<>>)
         ELSE SplitFrom(s, i + 1, Append(cur, s[i]))

Split(s) == SplitFrom(s, 1, <<>>)

\* " ".join(words)
RECURSIVE Join(_)
Join(words) ==
    IF words = <<>> THEN <<>>
    ELSE IF Len(words) = 1 THEN words[1]
    ELSE words[1] \o <<" ">> \o Join(Tail(words))

\* all sequences over S of length at most n
SeqsUpTo(S, n) == UNION {[1..k -> S] : k \in 0..n}

\* the number of indices of seq whose element is x
Count(seq, x) == Cardinality({i \in 1..Len(seq) : seq[i] = x})

-----------------------------------------------------------------------------
(* BooleanQueryParser.                                                     *)

Quote == "\""

\* the matches of the pattern  "[^"]+"  in s from index i on, left to right,
\* as pairs <<index of the opening quote, index of the closing quote>>
RECURSIVE QuoteMatches(_, _)
QuoteMatches(s, i) ==
    LET o == FindFrom(s, Quote, i)
        c == FindFrom(s, Quote, o + 1)
    IN  IF o = 0 \/ c = 0 THEN <<>>
        ELSE IF c = o + 1 THEN QuoteMatches(s, o + 1)
        ELSE <<<<o, c>>>> \o QuoteMatches(s, c + 1)

\* re.findall(r'"([^"]+)"', query)
FindPhrases(s) ==
    LET ms == QuoteMatches(s, 1)
    IN  [k \in 1..Len(ms) |-> SubSeq(s, ms[k][1] + 1, ms[k][2] - 1)]

Placeholder == <<"P", "H", "R", "A", "S", "E">>

\* re.sub(r'"[^"]+"', " PHRASE ", query)
RECURSIVE SubFrom(_, _, _)
SubFrom(s, ms, i) ==
    IF ms = <<>> THEN SubSeq(s, i, Len(s))
    ELSE SubSeq(s, i, ms[1][1] - 1) \o <<" ">> \o Placeholder \o <<" ">>
         \o SubFrom(s, Tail(ms), ms[1][2] + 1)

SubPhrases(s) == SubFrom(s, QuoteMatches(s, 1), 1)

kwAND == <<"A", "N", "D">>
kwOR == <<"O", "R">>
kwNOT == <<"N", "O", "T">>

\* the local state of parse before its loop
ParseInit ==
    [must |-> <<>>, should |-> <<>>, must_not |-> <<>>, phrase_idx |-> 0,
     next_is_not |-> FALSE, in_or_chain |-> FALSE, or_terms |-> <<>>]

\* the placement of one term: the if/elif/else on next_is_not and in_or_chain
PlaceTerm(st, term) ==
    IF st.next_is_not
    THEN [st EXCEPT !.must_not = Append(@, term), !.next_is_not = FALSE]
    ELSE IF st.in_or_chain
         THEN [st EXCEPT !.or_terms = Append(@, term)]
         ELSE [st EXCEPT !.must = Append(@, term)]

\* a variant of the loop body in which OR always moves the last must term
ParseTokenMovesAlways(st, token, phrases) ==
    IF token = kwNOT THEN [st EXCEPT !.next_is_not = TRUE]
    ELSE IF token = kwOR
         THEN IF st.must # <<>>
              THEN [st EXCEPT !.in_or_chain = TRUE,
                              !.or_terms = Append(@, st.must[Len(st.must)]),
                              !.must = SubSeq(@, 1, Len(@) - 1)]
              ELSE [st EXCEPT !.in_or_chain = TRUE]
    ELSE IF token = kwAND
         THEN [st EXCEPT !.should = @ \o st.or_terms, !.or_terms = <<>>,
                         !.in_or_chain = FALSE]
    ELSE IF token = Placeholder
         THEN IF st.phrase_idx < Len(phrases)
              THEN PlaceTerm([st EXCEPT !.phrase_idx = @ + 1],
                             Lower(phrases[st.phrase_idx + 1]))
              ELSE st
    ELSE PlaceTerm(st, Lower(token))

\* one iteration of the loop of parse, on one token
ParseToken(st, token, phrases) ==
    IF token = kwNOT THEN [st EXCEPT !.next_is_not = TRUE]
    ELSE IF token = kwOR
         THEN IF st.must # <<>> /\ st.or_terms = <<>>
              THEN [st EXCEPT !.in_or_chain = TRUE,
                              !.or_terms = Append(@, st.must[Len(st.must)]),
                              !.must = SubSeq(@, 1, Len(@) - 1)]
              ELSE [st EXCEPT !.in_or_chain = TRUE]
    ELSE IF token = kwAND
         THEN [st EXCEPT !.should = @ \o st.or_terms, !.or_terms = <<>>,
                         !.in_or_chain = FALSE]
    ELSE IF token = Placeholder
         THEN IF st.phrase_idx < Len(phrases)
              THEN PlaceTerm([st EXCEPT !.phrase_idx = @ + 1],
                             Lower(phrases[st.phrase_idx + 1]))
              ELSE st
    ELSE PlaceTerm(st, Lower(token))

\* the while loop of parse from token i on
RECURSIVE ParseLoop(_, _, _, _)
ParseLoop(st, tokens, i, phrases) ==
    IF i > Len(tokens) THEN st
    ELSE ParseLoop(ParseToken(st, tokens[i], phrases), tokens, i + 1, phrases)

\* BooleanQueryParser.parse
parse(q) ==
    LET phrases == FindPhrases(q)
        tokens == Split(Upper(SubPhrases(q)))
        st == ParseLoop(ParseInit, tokens, 1, phrases)
    IN  [must |-> st.must, should |-> st.should \o st.or_terms,
         must_not |-> st.must_not]

\* a variant of matches that asks for a should term also when must is non-empty
matchesShouldAlways(parsed_query, t) ==
    LET text_lower == Lower(t)
    IN  IF \E k \in 1..Len(parsed_query.must_not) :
               IsSubstr(parsed_query.must_not[k], text_lower)
        THEN FALSE
        ELSE IF \E k \in 1..Len(parsed_query.must) :
                    ~IsSubstr(parsed_query.must[k], text_lower)
        THEN FALSE
        ELSE IF parsed_query.should # <<>>
                /\ ~\E k \in 1..Len(parsed_query.should) :
                        IsSubstr(parsed_query.should[k], text_lower)
        THEN FALSE
        ELSE TRUE

\* BooleanQueryParser.matches: three checks, each an early return of False
matches(parsed_query, t) ==
    LET text_lower == Lower(t)
    IN  IF \E k \in 1..Len(parsed_query.must_not) :
               IsSubstr(parsed_query.must_not[k], text_lower)
        THEN FALSE
        ELSE IF \E k \in 1..Len(parsed_query.must) :
                    ~IsSubstr(parsed_query.must[k], text_lower)
        THEN FALSE
        ELSE IF parsed_query.should # <<>> /\ parsed_query.must = <<>>
                /\ ~\E k \in 1..Len(parsed_query.should) :
                        IsSubstr(parsed_query.should[k], text_lower)
        THEN FALSE
        ELSE TRUE

-----------------------------------------------------------------------------
(* The response text of the scoring oracle.                                *)
(*                                                                         *)
(* A response is a sequence of tokens, each a piece of text that the       *)
(* parsers of llm_filter.py tell apart: brackets, a code fence, prose, a   *)
(* brace-delimited object, a JSON value that is no object, a score line.   *)
(* Adjacent JSON values are separated by a comma.                          *)

\* brace-delimited objects: with a numeric score (20, 80, 150), with the score
\* "high", with the score null, without a score, and one that is no JSON
ObjectTokens == {"O20", "O80", "O150", "OStr", "ONull", "OEmpty", "OBad"}

\* the tokens json.loads accepts as one value
JsonValueTokens == (ObjectTokens \ {"OBad"}) \cup {"VAL"}

\* lines that a pattern of score_patterns matches
LineTokens == {"L1a", "L1b", "L2a"}

Tokens == {"LB", "RB", "FENCE", "PROSE", "VAL"} \cup ObjectTokens \cup LineTokens

\* the pattern of score_patterns that matches a line, and its two groups
LineOf(tok) ==
    CASE tok = "L1a" -> [pattern |-> 1, paper_num |-> 1, score |-> 150]
      [] tok = "L1b" -> [pattern |-> 1, paper_num |-> 2, score |-> 40]
      [] tok = "L2a" -> [pattern |-> 2, paper_num |-> 1, score |-> 85]

\* the grave accent, the character of a code fence
Backtick == "GRAVE"

\* the characters of one token of a response
TokenText(tok) ==
    CASE tok = "LB" ->
            <<"[">>
      [] tok = "RB" ->
            <<"]">>
      [] tok = "FENCE" ->
            <<Backtick, Backtick, Backtick>>
      [] tok = "PROSE" ->
            <<"f", "i", "n", "e", " ", "w", "o", "r", "k">>
      [] tok = "O20" ->
            <<"{", "\"", "s", "c", "o", "r", "e", "\"", ":", " ", "2", "0",
              ",", " ", "\"", "e", "x", "p", "l", "a", "n", "a", "t", "i",
              "o", "n", "\"", ":", " ", "\"", "g", "o", "o", "d", "\"", "}">>
      [] tok = "O80" ->
            <<"{", "\"", "s", "c", "o", "r", "e", "\"", ":", " ", "8", "0",
              ",", " ", "\"", "e", "x", "p", "l", "a", "n", "a", "t", "i",
              "o", "n", "\"", ":", " ", "\"", "g", "o", "o", "d", "\"", "}">>
      [] tok = "O150" ->
            <<"{", "\"", "s", "c", "o", "r", "e", "\"", ":", " ", "1", "5",
              "0", ",", " ", "\"", "e", "x", "p", "l", "a", "n", "a", "t",
              "i", "o", "n", "\"", ":", " ", "\"", "g", "o", "o", "d", "\"",
              "}">>
      [] tok = "OStr" ->
            <<"{", "\"", "s", "c", "o", "r", "e", "\"", ":", " ", "\"", "h",
              "i", "g", "h", "\"", "}">>
      [] tok = "ONull" ->
            <<"{", "\"", "s", "c", "o", "r", "e", "\"", ":", " ", "n", "u",
              "l", "l", "}">>
      [] tok = "OEmpty" ->
            <<"{", "}">>
      [] tok = "OBad" ->
            <<"{", "o", "o", "p", "s", "}">>
      [] tok = "VAL" ->
            <<"n", "u", "l", "l">>
      [] tok = "L1a" ->
            <<"P", "a", "p", "e", "r", " ", "1", ":", " ", "1", "5", "0",
              "/", "1", "0", "0">>
      [] tok = "L1b" ->
            <<"P", "a", "p", "e", "r", " ", "2", ":", " ", "4", "0", "/",
              "1", "0", "0">>
      [] tok = "L2a" ->
            <<"1", ".", " ", "S", "c", "o", "r", "e", ":", " ", "8", "5">>

NeedsComma(a, b) ==
    /\ a \in JsonValueTokens \cup {"OBad", "RB"}
    /\ b \in JsonValueTokens \cup {"OBad", "LB"}

\* the text of a response: its tokens, one per line
RECURSIVE RenderFrom(_, _)
RenderFrom(c, k) ==
    IF k > Len(c) THEN <<>>
    ELSE (IF k = 1 THEN <<>>
          ELSE (IF NeedsComma(c[k - 1], c[k]) THEN <<",">> ELSE <<>>) \o <<"\n">>)
         \o TokenText(c[k]) \o RenderFrom(c, k + 1)

Render(c) == RenderFrom(c, 1)

\* str.rfind(c): the last index that holds c, 0 when there is none
RECURSIVE RFindFrom(_, _, _)
RFindFrom(s, c, i) ==
    IF i < 1 THEN 0
    ELSE IF s[i] = c THEN i
    ELSE RFindFrom(s, c, i - 1)

RFind(s, c) == RFindFrom(s, c, Len(s))

-----------------------------------------------------------------------------
(* The strings of llm_filter.py and formatter.py.                          *)

\* "Not scored"
NotScoredText ==
    <<"N", "o", "t", " ", "s", "c", "o", "r", "e", "d">>

\* "Unable to parse LLM response"
UnableToParseText ==
    <<"U", "n", "a", "b", "l", "e", " ", "t", "o", " ", "p", "a", "r", "s",
      "e", " ", "L", "L", "M", " ", "r", "e", "s", "p", "o", "n", "s", "e">>

\* "Score extracted from text"
ExtractedText ==
    <<"S", "c", "o", "r", "e", " ", "e", "x", "t", "r", "a", "c", "t", "e",
      "d", " ", "f", "r", "o", "m", " ", "t", "e", "x", "t">>

\* "No explanation"
NoExplanationText ==
    <<"N", "o", " ", "e", "x", "p", "l", "a", "n", "a", "t", "i", "o", "n">>

\* "No explanation provided"
NoExplanationProvidedText ==
    <<"N", "o", " ", "e", "x", "p", "l", "a", "n", "a", "t", "i", "o", "n",
      " ", "p", "r", "o", "v", "i", "d", "e", "d">>

\* the prefix of f"Error: {str(e)}"
ErrorPrefix ==
    <<"E", "r", "r", "o", "r", ":", " ">>

\* the prefix of f"Error during scoring: {str(e)}"
ErrorDuringScoringPrefix ==
    <<"E", "r", "r", "o", "r", " ", "d", "u", "r", "i", "n", "g", " ", "s",
      "c", "o", "r", "i", "n", "g", ":", " ">>

\* the explanation the oracle writes into its JSON objects
GoodText ==
    <<"g", "o", "o", "d">>

\* str(e) of a failed oracle call
TimeoutText ==
    <<"R", "e", "q", "u", "e", "s", "t", " ", "t", "i", "m", "e", "d", " ",
      "o", "u", "t", ".">>

\* str(e) of float(None)
TypeErrorText ==
    <<"f", "l", "o", "a", "t", "(", ")", " ", "a", "r", "g", "u", "m", "e",
      "n", "t", " ", "m", "u", "s", "t", " ", "b", "e", " ", "a", " ", "s",
      "t", "r", "i", "n", "g", " ", "o", "r", " ", "a", " ", "r", "e", "a",
      "l", " ", "n", "u", "m", "b", "e", "r", ",", " ", "n", "o", "t", " ",
      "'", "N", "o", "n", "e", "T", "y", "p", "e", "'">>

\* str(e) of item.get on an item that is no dict
AttributeErrorText ==
    <<"'", "N", "o", "n", "e", "T", "y", "p", "e", "'", " ", "o", "b", "j",
      "e", "c", "t", " ", "h", "a", "s", " ", "n", "o", " ", "a", "t", "t",
      "r", "i", "b", "u", "t", "e", " ", "'", "g", "e", "t", "'">>

PatUnableToParse ==
    <<"u", "n", "a", "b", "l", "e", " ", "t", "o", " ", "p", "a", "r", "s",
      "e">>

PatUnableToScore ==
    <<"u", "n", "a", "b", "l", "e", " ", "t", "o", " ", "s", "c", "o", "r",
      "e">>

PatErrorDuringScoring ==
    <<"e", "r", "r", "o", "r", " ", "d", "u", "r", "i", "n", "g", " ", "s",
      "c", "o", "r", "i", "n", "g">>

PatError ==
    <<"e", "r", "r", "o", "r", ":">>

PatNotScored ==
    <<"n", "o", "t", " ", "s", "c", "o", "r", "e", "d">>

MIN_SCORE == 0
MAX_SCORE == 100
\* the score of a paper that got none
DefaultScore == 50
\* the default of the parameter batch_size
DefaultBatchSize == 5

\* str(e) of the exceptions that the parsers let escape
ExcText(exc) ==
    CASE exc = "TypeError" -> TypeErrorText
      [] exc = "AttributeError" -> AttributeErrorText

-----------------------------------------------------------------------------
(* LLMFilter: parsing a response.                                          *)

\* RelevanceResult, and in via the statement that built it
RelevanceResult(score, explanation, paper, via) ==
    [score |-> score, explanation |-> explanation, paper |-> paper, via |-> via]

\* float(item.get("score", 50)) and item.get("explanation", dflt) of one item
\* of the parsed JSON; exc names the exception that is raised instead
ItemOutcome(tok, dflt) ==
    CASE tok = "O20" ->
            [exc |-> "none", score |-> 20, explanation |-> GoodText, via |-> "json"]
      [] tok = "O80" ->
            [exc |-> "none", score |-> 80, explanation |-> GoodText, via |-> "json"]
      [] tok = "O150" ->
            [exc |-> "none", score |-> 150, explanation |-> GoodText, via |-> "json"]
      [] tok = "OEmpty" ->
            [exc |-> "none", score |-> DefaultScore, explanation |-> dflt,
             via |-> "json_default"]
      [] tok = "OStr" ->
            [exc |-> "ValueError", score |-> 0, explanation |-> <<>>, via |-> "json"]
      [] tok = "ONull" ->
            [exc |-> "TypeError", score |-> 0, explanation |-> <<>>, via |-> "json"]
      [] OTHER ->
            [exc |-> "AttributeError", score |-> 0, explanation |-> <<>>,
             via |-> "json"]

\* the text between the first pair of code fences, else the whole text
CleanedContent(content) ==
    LET i == FindFrom(content, "FENCE", 1)
        j == IF i = 0 THEN 0 ELSE FindFrom(content, "FENCE", i + 1)
    IN  IF j = 0 THEN content ELSE SubSeq(content, i + 1, j - 1)

NotJson == [ok |-> FALSE, items |-> <<>>]

\* json.loads of the text between an opening and a closing bracket: the items
\* of the array ("ARR" for a nested array), or a JSONDecodeError
RECURSIVE JsonScan(_, _, _, _)
JsonScan(toks, k, depth, items) ==
    IF k > Len(toks)
    THEN (IF depth = 0 THEN [ok |-> TRUE, items |-> items] ELSE NotJson)
    ELSE IF toks[k] = "LB" THEN JsonScan(toks, k + 1, depth + 1, items)
    ELSE IF toks[k] = "RB"
         THEN (IF depth = 0 THEN NotJson
               ELSE JsonScan(toks, k + 1, depth - 1,
                             IF depth = 1 THEN Append(items, "ARR") ELSE items))
    ELSE IF toks[k] \in JsonValueTokens
         THEN JsonScan(toks, k + 1, depth,
                       IF depth = 0 THEN Append(items, toks[k]) ELSE items)
    ELSE NotJson

\* the loop over the items of the JSON array
RECURSIVE ArrayLoop(_, _, _, _)
ArrayLoop(data, batch, i, res) ==
    IF i > Len(data) THEN [exc |-> "none", results |-> res]
    ELSE IF i > Len(batch) THEN ArrayLoop(data, batch, i + 1, res)
    ELSE LET it == ItemOutcome(data[i], NoExplanationText)
         IN  IF it.exc # "none" THEN [exc |-> it.exc, results |-> res]
             ELSE ArrayLoop(data, batch, i + 1,
                            Append(res, RelevanceResult(it.score, it.explanation,
                                                            batch[i], it.via)))

\* the first try block: the JSON array between the first [ and the last ]
TryArray(cleaned, batch) ==
    LET start == FindFrom(cleaned, "LB", 1)
        end == RFind(cleaned, "RB")
    IN  IF start = 0 \/ end <= start THEN [exc |-> "skip", results |-> <<>>]
        ELSE LET js == JsonScan(SubSeq(cleaned, start + 1, end - 1), 1, 0, <<>>)
             IN  IF ~js.ok THEN [exc |-> "JSONDecodeError", results |-> <<>>]
                 ELSE ArrayLoop(js.items, batch, 1, <<>>)

\* "Fill in missing papers with default scores"
FillMissing(res, batch) ==
    res \o [k \in 1..(Len(batch) - Len(res)) |->
                    RelevanceResult(DefaultScore, NotScoredText,
                                    batch[Len(res) + k], "not_scored")]

\* the loop over the brace-delimited objects
RECURSIVE ObjectLoop(_, _, _, _)
ObjectLoop(objs, batch, i, res) ==
    IF i > Len(objs) THEN [exc |-> "none", results |-> res]
    ELSE IF i > Len(batch) THEN ObjectLoop(objs, batch, i + 1, res)
    ELSE IF objs[i] = "OBad" THEN ObjectLoop(objs, batch, i + 1, res)
    ELSE LET it == ItemOutcome(objs[i], NoExplanationText)
         IN  IF it.exc = "ValueError" THEN ObjectLoop(objs, batch, i + 1, res)
             ELSE IF it.exc # "none" THEN [exc |-> it.exc, results |-> res]
             ELSE ObjectLoop(objs, batch, i + 1,
                             Append(res, RelevanceResult(it.score, it.explanation,
                                                             batch[i], it.via)))

\* the second try block, entered with the results the first one left
TryObjects(cleaned, batch, res) ==
    LET json_objects == SelectSeq(cleaned, LAMBDA tok : tok \in ObjectTokens)
        loop == ObjectLoop(json_objects, batch, 1, res)
    IN  IF json_objects = <<>> THEN [returned |-> FALSE, results |-> res]
        ELSE IF loop.exc = "none" /\ loop.results # <<>>
        THEN [returned |-> TRUE, results |-> FillMissing(loop.results, batch)]
        ELSE [returned |-> FALSE, results |-> loop.results]

\* re.findall(pattern, content) for the pattern number p of score_patterns
PatternMatches(content, p) ==
    LET lines == SelectSeq(content,
                           LAMBDA tok : tok \in LineTokens /\ LineOf(tok).pattern = p)
    IN  [k \in 1..Len(lines) |-> LineOf(lines[k])]

\* min(MAX_SCORE, max(MIN_SCORE, n))
Clamp(n) ==
    LET lo == IF n > MIN_SCORE THEN n ELSE MIN_SCORE
    IN  IF lo < MAX_SCORE THEN lo ELSE MAX_SCORE

\* the results of the regex fallback for the matches of one pattern: the dict
\* paper_scores keeps the last match of a paper number
PatternResults(ms, batch) ==
    [i \in 1..Len(batch) |->
        LET hits == {k \in 1..Len(ms) : ms[k].paper_num = i}
        IN  IF hits = {}
            THEN RelevanceResult(DefaultScore, ExtractedText, batch[i], "regex_default")
            ELSE RelevanceResult(
                     Clamp(ms[CHOOSE k \in hits : \A h \in hits : h <= k].score),
                     ExtractedText, batch[i], "regex")]

\* the loop over score_patterns, entered with the results the try blocks left
TryPatterns(content, batch, res) ==
    IF \E p \in 1..3 : PatternMatches(content, p) # <<>>
    THEN LET p == CHOOSE q \in 1..3 :
                      /\ PatternMatches(content, q) # <<>>
                      /\ \A r \in 1..(q - 1) : PatternMatches(content, r) = <<>>
         IN  [returned |-> TRUE,
              results |-> res \o PatternResults(PatternMatches(content, p), batch)]
    ELSE [returned |-> FALSE, results |-> res]

\* "Final fallback: return default scores with descriptive explanation"
Unparseable(batch) ==
    [i \in 1..Len(batch) |->
        RelevanceResult(DefaultScore, UnableToParseText, batch[i], "unparseable")]

\* LLMFilter._parse_batch_response: the results, or the exception it raises
_parse_batch_response(content, batch) ==
    LET cleaned == CleanedContent(content)
        a == TryArray(cleaned, batch)
        o == TryObjects(cleaned, batch, a.results)
        r == TryPatterns(content, batch, o.results)
    IN  IF a.exc = "none"
        THEN [raised |-> FALSE, exc |-> "none", results |-> FillMissing(a.results, batch)]
        ELSE IF a.exc \in {"TypeError", "AttributeError"}
        THEN [raised |-> TRUE, exc |-> a.exc, results |-> <<>>]
        ELSE IF o.returned
        THEN [raised |-> FALSE, exc |-> "none", results |-> o.results]
        ELSE IF r.returned
        THEN [raised |-> FALSE, exc |-> "none", results |-> r.results]
        ELSE [raised |-> FALSE, exc |-> "none", results |-> Unparseable(batch)]

\* the defaults of _score_batch when the try block raised e
BatchErrors(batch, errtext) ==
    [i \in 1..Len(batch) |->
        RelevanceResult(DefaultScore, ErrorPrefix \o errtext, batch[i], "error")]

\* a variant of _score_batch in which a failed call gives up the first paper only
_score_batch_first_only(batch, outcome) ==
    IF outcome.fail THEN BatchErrors(SubSeq(batch, 1, 1), outcome.err)
    ELSE LET p == _parse_batch_response(outcome.content, batch)
         IN  IF p.raised THEN BatchErrors(batch, ExcText(p.exc)) ELSE p.results

\* a variant of _score_batch that lets the exceptions of the parser escape:
\* the batch gets no results
_score_batch_uncaught(batch, outcome) ==
    IF outcome.fail THEN BatchErrors(batch, outcome.err)
    ELSE LET p == _parse_batch_response(outcome.content, batch)
         IN  IF p.raised THEN <<>> ELSE p.results

\* LLMFilter._score_batch: the oracle call and the parse in one try block
_score_batch(batch, outcome) ==
    IF outcome.fail THEN BatchErrors(batch, outcome.err)
    ELSE LET p == _parse_batch_response(outcome.content, batch)
         IN  IF p.raised THEN BatchErrors(batch, ExcText(p.exc)) ELSE p.results

\* the indices of the brace-delimited objects of a text
ObjectIndices(content) == {k \in 1..Len(content) : content[k] \in ObjectTokens}

\* re.search(r"(\d{1,3})\s*[/\\]?\s*100", content): the lines with N/100
SlashLines(content) ==
    SelectSeq(content, LAMBDA tok : tok \in LineTokens /\ LineOf(tok).pattern \in {1, 3})

\* LLMFilter._parse_response: score and explanation, or the exception raised
_parse_response(content) ==
    LET idx == ObjectIndices(content)
        start == CHOOSE k \in idx : \A h \in idx : k <= h
        end == CHOOSE k \in idx : \A h \in idx : h <= k
        json_ok == idx # {} /\ start = end /\ content[start] # "OBad"
        it == ItemOutcome(content[start], NoExplanationProvidedText)
        lines == SlashLines(content)
    IN  IF json_ok /\ it.exc = "none"
        THEN [raised |-> FALSE, exc |-> "none", score |-> it.score,
              explanation |-> it.explanation, via |-> it.via]
        ELSE IF json_ok /\ it.exc # "ValueError"
        THEN [raised |-> TRUE, exc |-> it.exc, score |-> 0, explanation |-> <<>>,
              via |-> "json"]
        ELSE IF lines # <<>>
        THEN [raised |-> FALSE, exc |-> "none", score |-> LineOf(lines[1]).score,
              explanation |-> Render(content), via |-> "regex"]
        ELSE [raised |-> FALSE, exc |-> "none", score |-> DefaultScore,
              explanation |-> Render(content), via |-> "content_default"]

\* LLMFilter.score_paper
score_paper(paper, outcome) ==
    IF outcome.fail
    THEN RelevanceResult(DefaultScore, ErrorDuringScoringPrefix \o outcome.err, paper,
                         "error")
    ELSE LET p == _parse_response(outcome.content)
         IN  IF p.raised
             THEN RelevanceResult(DefaultScore,
                                  ErrorDuringScoringPrefix \o ExcText(p.exc), paper,
                                  "error")
             ELSE RelevanceResult(p.score, p.explanation, paper, p.via)

\* the papers of the batch that starts after position i
BatchAt(ps, i, bs) ==
    SubSeq(ps, i + 1, IF i + bs < Len(ps) THEN i + bs ELSE Len(ps))

\* the number of iterations of  for i in range(0, len(papers), batch_size)
NumBatches(n, bs) == (n + bs - 1) \div bs

-----------------------------------------------------------------------------
(* LLMFilter.filter_papers, after the scores are in.                       *)

\* the value of an attribute after the loop over the results: that of the last
\* result of the paper that meets min_score, else the value it had
LastKept(rs, paper, min, old, attr) ==
    LET hits == {k \in 1..Len(rs) : rs[k].paper = paper /\ rs[k].score >= min}
    IN  IF hits = {} THEN old
        ELSE LET k == CHOOSE h \in hits : \A g \in hits : g <= h
             IN  IF attr = "score" THEN Some(rs[k].score) ELSE Some(rs[k].explanation)

\* a variant of the list that keeps a result only above min_score
KeptPapersAbove(rs, min) ==
    LET kept == SelectSeq(rs, LAMBDA r : r.score > min)
    IN  [k \in 1..Len(kept) |-> kept[k].paper]

\* the list filtered before it is sorted
KeptPapers(rs, min) ==
    LET kept == SelectSeq(rs, LAMBDA r : r.score >= min)
    IN  [k \in 1..Len(kept) |-> kept[k].paper]

\* the sort key  p.relevance_score or 0
SortKey(score) == IF score = None THEN 0 ELSE score[1]

RECURSIVE InsertDesc(_, _, _)
InsertDesc(s, x, keyf) ==
    IF s = <<>> THEN <<x>>
    ELSE IF keyf[Head(s)] >= keyf[x] THEN <<Head(s)>> \o InsertDesc(Tail(s), x, keyf)
    ELSE <<x>> \o s

\* list.sort(key=..., reverse=True): descending, equal keys in their old order
RECURSIVE SortDesc(_, _)
SortDesc(s, keyf) ==
    IF s = <<>> THEN <<>>
    ELSE InsertDesc(SortDesc(SubSeq(s, 1, Len(s) - 1), keyf), s[Len(s)], keyf)

-----------------------------------------------------------------------------
(* SlackFormatter: the sentinel match.                                     *)

ERROR_EXPLANATION_PATTERNS ==
    <<PatUnableToParse, PatUnableToScore, PatErrorDuringScoring, PatError, PatNotScored>>

\* SlackFormatter._is_error_explanation
_is_error_explanation(explanation) ==
    IF explanation = None \/ explanation = Some(<<>>) THEN FALSE
    ELSE \E k \in 1..Len(ERROR_EXPLANATION_PATTERNS) :
            IsSubstr(ERROR_EXPLANATION_PATTERNS[k], Lower(explanation[1]))

\* format_paper: whether the relevance section of a paper is rendered
RelevanceShown(score, explanation) ==
    score # None /\ ~_is_error_explanation(explanation)

-----------------------------------------------------------------------------
(* The queries and texts the parser is run on.                             *)

\* a lexeme is a word or a quoted phrase, as the user types it
Word(w) == [quoted |-> FALSE, body |-> w]
Phrase(w) == [quoted |-> TRUE, body |-> w]

Lexemes ==
    { Word(<<"a">>), Word(<<"B">>), Word(<<"A", "N", "D">>), Word(<<"o", "r">>),
      Word(<<"N", "O", "T">>), Word(<<"p", "h", "r", "a", "s", "e">>),
      Phrase(<<"A", " ", "b">>) }

\* the characters a lexeme contributes to the query string
Typed(l) == IF l.quoted THEN <<Quote>> \o l.body \o <<Quote>> ELSE l.body

QueryString(ls) == Join([k \in 1..Len(ls) |-> Typed(ls[k])])

TextChars == {"a", "B", " "}

EmptyParsed == [must |-> <<>>, should |-> <<>>, must_not |-> <<>>]

\* the parser when another component is looked at
QIdle ==
    /\ qlex = <<>>
    /\ query = <<>>
    /\ parsed = EmptyParsed
    /\ text = <<>>
    /\ matched = FALSE
    /\ qop = "new"

\* a query typed from at most MaxTokens lexemes, not parsed yet
QInit ==
    /\ qlex \in SeqsUpTo(Lexemes, MaxTokens)
    /\ query = QueryString(qlex)
    /\ parsed = EmptyParsed
    /\ text = <<>>
    /\ matched = FALSE
    /\ qop = "new"

\* the words of a query of single-letter terms chained by operators
ChainLexemes ==
    { Word(<<"a">>), Word(<<"b">>), Word(<<"c">>), Word(kwOR), Word(kwAND), Word(kwNOT) }

\* a query typed from at most MaxChainTokens terms and operators, not parsed yet
QChain ==
    /\ qlex \in SeqsUpTo(ChainLexemes, MaxChainTokens)
    /\ query = QueryString(qlex)
    /\ parsed = EmptyParsed
    /\ text = <<>>
    /\ matched = FALSE
    /\ qop = "new"

\* the call of parse on the query
Parse ==
    /\ qop = "new"
    /\ parsed' = parse(query)
    /\ qop' = "parse"
    /\ UNCHANGED <<qlex, query, text, matched>>
    /\ QFrame

\* a call of matches with the dict parse returned
Matches ==
    /\ qop = "parse"
    /\ \E t \in SeqsUpTo(TextChars, MaxTextLen) :
        /\ text' = t
        /\ matched' = matches(parsed, t)
        /\ qop' = "matches"
    /\ UNCHANGED <<qlex, query, parsed>>
    /\ QFrame

QNext == Parse \/ Matches

-----------------------------------------------------------------------------
(* The scorer at work: score_papers, filter_papers and score_paper, with    *)
(* the oracle call of each batch as a step of its own.                      *)

PaperIds == 1..MaxPapers

\* min_score: the default of filter_papers, which post_papers passes too
MinScores == {50}

\* min_score as _handle_papersearch passes it
SearchMinScore == 30

NoReply == [fail |-> FALSE, content |-> <<>>, err |-> <<>>]

\* what the oracle call of one batch may end with: an exception, or a text of
\* at most maxlen tokens
Outcomes(maxlen) ==
    {[fail |-> TRUE, content |-> <<>>, err |-> TimeoutText]}
    \cup {[fail |-> FALSE, content |-> c, err |-> <<>>] : c \in SeqsUpTo(Tokens, maxlen)}

LInit ==
    /\ mode = "none"
    /\ papers = <<>>
    /\ batch_size = DefaultBatchSize
    /\ min_score = 0
    /\ pos = 0
    /\ reply = NoReply
    /\ results = <<>>
    /\ failed = {}
    /\ relevance_score = [p \in PaperIds |-> None]
    /\ relevance_explanation = [p \in PaperIds |-> None]
    /\ filtered = <<>>
    /\ lpc = "idle"

\* score_papers(papers, batch_size=bs) is called
StartScore ==
    /\ lpc = "idle"
    /\ \E n \in 0..MaxPapers, bs \in 1..MaxPapers :
        /\ NumBatches(n, bs) <= MaxBatches
        /\ papers' = [k \in 1..n |-> k]
        /\ batch_size' = bs
        /\ lpc' = IF n = 0 THEN "done" ELSE "call"
    /\ mode' = "score"
    /\ UNCHANGED <<min_score, pos, reply, results, failed, relevance_score,
                   relevance_explanation, filtered>>
    /\ LFrame

\* filter_papers(papers, min_score=m) is called; it scores with the default
\* batch size
StartFilter ==
    /\ lpc = "idle"
    /\ \E n \in 0..MaxPapers, m \in MinScores :
        /\ papers' = [k \in 1..n |-> k]
        /\ min_score' = m
        /\ lpc' = IF n = 0 THEN "done" ELSE "call"
    /\ mode' = "filter"
    /\ UNCHANGED <<batch_size, pos, reply, results, failed, relevance_score,
                   relevance_explanation, filtered>>
    /\ LFrame

\* filter_papers(papers, min_score=30) is called, as _handle_papersearch calls it
StartSearchFilter ==
    /\ lpc = "idle"
    /\ \E n \in 0..MaxPapers :
        /\ papers' = [k \in 1..n |-> k]
        /\ lpc' = IF n = 0 THEN "done" ELSE "call"
    /\ min_score' = SearchMinScore
    /\ mode' = "filter"
    /\ UNCHANGED <<batch_size, pos, reply, results, failed, relevance_score,
                   relevance_explanation, filtered>>
    /\ LFrame

\* score_paper(paper) is called
StartSingle ==
    /\ lpc = "idle"
    /\ papers' = <<1>>
    /\ mode' = "single"
    /\ lpc' = "call"
    /\ UNCHANGED <<batch_size, min_score, pos, reply, results, failed,
                   relevance_score, relevance_explanation, filtered>>
    /\ LFrame

\* client.chat.completions.create returns or raises
OracleCall(maxlen) ==
    /\ lpc = "call"
    /\ \E o \in Outcomes(maxlen) : reply' = o
    /\ lpc' = "reply"
    /\ UNCHANGED <<mode, papers, batch_size, min_score, pos, results, failed,
                   relevance_score, relevance_explanation, filtered>>
    /\ LFrame

\* score_paper goes on after the call, to its return
SingleReturn ==
    /\ lpc = "reply"
    /\ mode = "single"
    /\ results' = <<score_paper(papers[1], reply)>>
    /\ reply' = NoReply
    /\ lpc' = "done"
    /\ UNCHANGED <<mode, papers, batch_size, min_score, pos, failed, relevance_score,
                   relevance_explanation, filtered>>
    /\ LFrame

\* _score_batch goes on after the call and score_papers extends its results;
\* after the last batch score_papers returns, and filter_papers runs its loop
\* and its sort
BatchReturn ==
    /\ lpc = "reply"
    /\ mode \in {"score", "filter"}
    /\ LET batch == BatchAt(papers, pos, batch_size)
           rs == results \o _score_batch(batch, reply)
           last == pos + batch_size >= Len(papers)
           scores == [p \in PaperIds |->
                        LastKept(rs, p, min_score, relevance_score[p], "score")]
           expls == [p \in PaperIds |->
                        LastKept(rs, p, min_score, relevance_explanation[p],
                                 "explanation")]
           keyf == [p \in PaperIds |-> SortKey(scores[p])]
       IN  /\ results' = rs
           /\ pos' = pos + batch_size
           /\ failed' = IF reply.fail
                        THEN failed \cup {batch[k] : k \in 1..Len(batch)}
                        ELSE failed
           /\ lpc' = IF last THEN "done" ELSE "call"
           /\ IF last /\ mode = "filter"
              THEN /\ relevance_score' = scores
                   /\ relevance_explanation' = expls
                   /\ filtered' = SortDesc(KeptPapers(rs, min_score), keyf)
              ELSE UNCHANGED <<relevance_score, relevance_explanation, filtered>>
    /\ reply' = NoReply
    /\ UNCHANGED <<mode, papers, batch_size, min_score>>
    /\ LFrame

-----------------------------------------------------------------------------
(* SearchEngine: the papers, the filters, search and its history.          *)

\* a Paper, with the attributes search looks at
Paper(title, abstract, authors, journal, source, publication_date, score) ==
    [title |-> title, abstract |-> abstract, authors |-> authors,
     journal |-> journal, source |-> source,
     publication_date |-> publication_date, relevance_score |-> score]

\* "2023-06-01", "2024-01-01", "2024-06-01"
Date2023Jun == <<"2", "0", "2", "3", "-", "0", "6", "-", "0", "1">>
Date2024Jan == <<"2", "0", "2", "4", "-", "0", "1", "-", "0", "1">>
Date2024Jun == <<"2", "0", "2", "4", "-", "0", "6", "-", "0", "1">>

\* the papers that the lists handed to search are made of
Catalogue ==
    << Paper(<<"a">>, <<"B">>, << <<"A", "l">> >>, <<"N", "a", "t">>,
             <<"a", "r", "x", "i", "v">>, Date2024Jan, None),
       Paper(<<"B">>, <<>>, << <<"B", "o">>, <<"a", "l", "i">> >>, <<"C", "e", "l", "l">>,
             <<"p", "u", "b", "m", "e", "d">>, Date2023Jun, Some(0)),
       Paper(<<"a", " ", "B">>, <<"a">>, <<>>, <<"N", "a", "t">>,
             <<"p", "u", "b", "m", "e", "d">>, Date2024Jun, Some(80)) >>

CatalogueIds == 1..Len(Catalogue)

\* f"{paper.title} {paper.abstract}"
TitleAbstract(p) == p.title \o <<" ">> \o p.abstract

\* the characters of a date, in the order of their code points
DateChars == <<"-", "0", "1", "2", "3", "4", "5", "6", "7", "8", "9">>

Ord(c) == CHOOSE k \in 1..Len(DateChars) : DateChars[k] = c

\* s <= t for two str
RECURSIVE StrLeqFrom(_, _, _)
StrLeqFrom(s, t, i) ==
    IF i > Len(s) THEN TRUE
    ELSE IF i > Len(t) THEN FALSE
    ELSE IF s[i] = t[i] THEN StrLeqFrom(s, t, i + 1)
    ELSE Ord(s[i]) < Ord(t[i])

StrLeq(s, t) == StrLeqFrom(s, t, 1)

\* the fields of SearchFilters
FilterFields ==
    {"authors", "date_from", "date_to", "title_keywords", "abstract_keywords",
     "exclude_terms", "journals", "sources", "min_relevance_score"}

\* the value a field is searched with when it is set
FieldValue(field, min) ==
    CASE field = "authors" -> << <<"A", "L">> >>
      [] field = "date_from" -> Date2024Jan
      [] field = "date_to" -> Date2024Jan
      [] field = "title_keywords" -> << <<"A">> >>
      [] field = "abstract_keywords" -> << <<"b">>, <<"z">> >>
      [] field = "exclude_terms" -> << <<"A", " ", "b">> >>
      [] field = "journals" -> << <<"N", "A", "T">> >>
      [] field = "sources" -> << <<"P", "u", "b", "M", "e", "d">>,
                                 <<"b", "i", "o", "r", "x", "i", "v">> >>
      [] field = "min_relevance_score" -> min

\* SearchFilters with the fields of set given and the others None
SearchFilters(set, min) ==
    [field \in FilterFields |->
        IF field \in set THEN Some(FieldValue(field, min)) ELSE None]

\* the sets of fields the filters are searched with: none, each alone, some
\* pairs, all
FieldSets ==
    {{}} \cup {{field} : field \in FilterFields}
    \cup {{"authors", "journals"}, {"date_from", "date_to"},
          {"title_keywords", "exclude_terms"}, {"sources", "min_relevance_score"},
          {"abstract_keywords", "min_relevance_score"}, FilterFields}

\* the values of the parameter filters: None, or SearchFilters
FilterChoices ==
    {None} \cup {Some(SearchFilters(set, min)) : set \in FieldSets, min \in {0, 50}}

\* the queries searched with: a, B or a, NOT a, "A b" B, and the empty one
SearchQueries ==
    { <<Word(<<"a">>)>>, <<Word(<<"B">>), Word(<<"o", "r">>), Word(<<"a">>)>>,
      <<Word(<<"N", "O", "T">>), Word(<<"a">>)>>,
      <<Phrase(<<"A", " ", "b">>), Word(<<"B">>)>>, <<>> }

\* the values of the parameter user_id
UserIds == {None, Some(<<"U", "1">>)}

\* the truth value of a field that holds a list or a str
Truthy(field) == field # None /\ field[1] # <<>>

\* the tests of the list comprehensions of _apply_filters, field by field
AuthorsTest(p, authors) ==
    \E i \in 1..Len(authors), j \in 1..Len(p.authors) :
        IsSubstr(Lower(Lower(authors[i])), Lower(p.authors[j]))

DateFromTest(p, date_from) == StrLeq(date_from, p.publication_date)

DateToTest(p, date_to) == StrLeq(p.publication_date, date_to)

TitleKeywordsTest(p, title_keywords) ==
    \E i \in 1..Len(title_keywords) : IsSubstr(Lower(title_keywords[i]), Lower(p.title))

AbstractKeywordsTest(p, abstract_keywords) ==
    \E i \in 1..Len(abstract_keywords) :
        IsSubstr(Lower(abstract_keywords[i]), Lower(p.abstract))

ExcludeTermsTest(p, exclude_terms) ==
    ~\E i \in 1..Len(exclude_terms) :
        IsSubstr(Lower(exclude_terms[i]), Lower(TitleAbstract(p)))

JournalsTest(p, journals) ==
    \E i \in 1..Len(journals) : Lower(journals[i]) = Lower(p.journal)

SourcesTest(p, sources) ==
    \E i \in 1..Len(sources) : Lower(sources[i]) = Lower(p.source)

MinRelevanceTest(p, min_relevance_score) ==
    p.relevance_score # None /\ p.relevance_score[1] >= min_relevance_score

\* one step of _apply_filters: the list is narrowed when the field is on
Narrow(ps, on, Test(_)) ==
    IF on THEN SelectSeq(ps, LAMBDA id : Test(Catalogue[id])) ELSE ps

\* a variant of _apply_filters that tests min_relevance_score for its truth
\* value, as it tests the other fields
_apply_filters_truthy(ps, f) ==
    LET f1 == Narrow(ps, Truthy(f.authors), LAMBDA p : AuthorsTest(p, f.authors[1]))
        f2 == Narrow(f1, Truthy(f.date_from), LAMBDA p : DateFromTest(p, f.date_from[1]))
        f3 == Narrow(f2, Truthy(f.date_to), LAMBDA p : DateToTest(p, f.date_to[1]))
        f4 == Narrow(f3, Truthy(f.title_keywords),
                     LAMBDA p : TitleKeywordsTest(p, f.title_keywords[1]))
        f5 == Narrow(f4, Truthy(f.abstract_keywords),
                     LAMBDA p : AbstractKeywordsTest(p, f.abstract_keywords[1]))
        f6 == Narrow(f5, Truthy(f.exclude_terms),
                     LAMBDA p : ExcludeTermsTest(p, f.exclude_terms[1]))
        f7 == Narrow(f6, Truthy(f.journals), LAMBDA p : JournalsTest(p, f.journals[1]))
        f8 == Narrow(f7, Truthy(f.sources), LAMBDA p : SourcesTest(p, f.sources[1]))
    IN  Narrow(f8, f.min_relevance_score # None /\ f.min_relevance_score[1] # 0,
               LAMBDA p : MinRelevanceTest(p, f.min_relevance_score[1]))

\* SearchEngine._apply_filters
_apply_filters(ps, f) ==
    LET f1 == Narrow(ps, Truthy(f.authors), LAMBDA p : AuthorsTest(p, f.authors[1]))
        f2 == Narrow(f1, Truthy(f.date_from), LAMBDA p : DateFromTest(p, f.date_from[1]))
        f3 == Narrow(f2, Truthy(f.date_to), LAMBDA p : DateToTest(p, f.date_to[1]))
        f4 == Narrow(f3, Truthy(f.title_keywords),
                     LAMBDA p : TitleKeywordsTest(p, f.title_keywords[1]))
        f5 == Narrow(f4, Truthy(f.abstract_keywords),
                     LAMBDA p : AbstractKeywordsTest(p, f.abstract_keywords[1]))
        f6 == Narrow(f5, Truthy(f.exclude_terms),
                     LAMBDA p : ExcludeTermsTest(p, f.exclude_terms[1]))
        f7 == Narrow(f6, Truthy(f.journals), LAMBDA p : JournalsTest(p, f.journals[1]))
        f8 == Narrow(f7, Truthy(f.sources), LAMBDA p : SourcesTest(p, f.sources[1]))
    IN  Narrow(f8, f.min_relevance_score # None,
               LAMBDA p : MinRelevanceTest(p, f.min_relevance_score[1]))

\* the default of the parameter top_k of SemanticSearch.search
top_k == 50

\* the rearrangements of a list
Perms(s) ==
    {[i \in 1..Len(s) |-> s[f[i]]] :
        f \in {g \in [1..Len(s) -> 1..Len(s)] :
                 \A i, j \in 1..Len(s) : g[i] = g[j] => i = j}}

\* papers[:n]
Take(s, n) == SubSeq(s, 1, IF n < Len(s) THEN n ELSE Len(s))

\* float(similarities[i]): a number the model computes, left open
Similarity == "similarity"

\* the list of (paper, score) tuples SemanticSearch.search returns
WithScore(ps, score) == [k \in 1..Len(ps) |-> <<ps[k], score>>]

\* SemanticSearch.search: what a call may end with. Without a model the papers
\* keep their order; with one, encode may raise, and the order is that of the
\* similarities the model gives
SemanticSearchOutcomes(ps, model) ==
    IF model # "loaded" \/ ps = <<>>
    THEN {[raised |-> FALSE, papers |-> Take(ps, top_k),
           ranking |-> WithScore(Take(ps, top_k), 1)]}
    ELSE {[raised |-> TRUE, papers |-> <<>>, ranking |-> <<>>]}
         \cup {[raised |-> FALSE, papers |-> Take(r, top_k),
                ranking |-> WithScore(Take(r, top_k), Similarity)] : r \in Perms(ps)}

\* the dict _save_search_history hands to SearchQuery
FilterDict(f) == IF f # None THEN f[1] ELSE <<>>

\* the search engine before a call
SIdle ==
    /\ search_query = <<>>
    /\ search_papers = <<>>
    /\ search_filters = None
    /\ use_semantic = TRUE
    /\ user_id = None
    /\ semantic_search = "none"
    /\ ranking = <<>>
    /\ returned = <<>>
    /\ history = <<>>
    /\ spc = "idle"

\* SearchEngine(database, use_semantic): without a SemanticSearch, with one
\* whose model cannot be loaded, with one whose model can
SInit ==
    /\ search_query = <<>>
    /\ search_papers = <<>>
    /\ search_filters = None
    /\ use_semantic = TRUE
    /\ user_id = None
    /\ semantic_search \in {"none", "unavailable", "loaded"}
    /\ ranking = <<>>
    /\ returned = <<>>
    /\ history = <<>>
    /\ spc = "idle"

\* SearchEngine.search: the list it returns, or the exception of the ranker;
\* saved tells whether the database takes the history entry
search(q, ps, f, sem, uid, saved) ==
    LET parsed_query == parse(q)
        keyword == SelectSeq(ps, LAMBDA id :
                                matches(parsed_query, TitleAbstract(Catalogue[id])))
        filtered_papers == IF f # None THEN _apply_filters(keyword, f[1]) ELSE keyword
        ranked == IF sem /\ semantic_search # "none" /\ filtered_papers # <<>>
                  THEN SemanticSearchOutcomes(filtered_papers, semantic_search)
                  ELSE {[raised |-> FALSE, papers |-> filtered_papers, ranking |-> <<>>]}
    IN  IF ps = <<>>
        THEN {[raised |-> FALSE, papers |-> <<>>, ranking |-> <<>>, saves |-> <<>>]}
        ELSE {[raised |-> o.raised, papers |-> o.papers, ranking |-> o.ranking,
               saves |-> IF o.raised \/ ~saved THEN <<>>
                         ELSE <<[query |-> q, filters |-> FilterDict(f),
                                 result_count |-> Len(o.papers), user_id |-> uid]>>] :
                o \in ranked}

\* a call of search
Search ==
    /\ spc = "idle"
    /\ \E l \in SearchQueries, ps \in SeqsUpTo(CatalogueIds, MaxSearchPapers),
          f \in FilterChoices, sem \in BOOLEAN, uid \in UserIds, saved \in BOOLEAN :
        \E o \in search(QueryString(l), ps, f, sem, uid, saved) :
            /\ search_query' = QueryString(l)
            /\ search_papers' = ps
            /\ search_filters' = f
            /\ use_semantic' = sem
            /\ user_id' = uid
            /\ ranking' = o.ranking
            /\ returned' = o.papers
            /\ history' = history \o o.saves
            /\ spc' = IF o.raised THEN "raised" ELSE "done"
    /\ UNCHANGED semantic_search
    /\ SFrame

-----------------------------------------------------------------------------
(* The lazily built handles: LLMFilter.client and SemanticSearch.model,     *)
(* read by the handlers of the bot, which run as threads and share one      *)
(* LLMFilter and one SearchEngine.                                          *)

Callers == 1..NumCallers

\* no caller has arrived, nothing is built
CInit ==
    /\ _client = None
    /\ _model = None
    /\ _model_load_attempted = FALSE
    /\ client_built = 0
    /\ model_built = 0
    /\ tcall = [t \in Callers |-> "none"]
    /\ tpc = [t \in Callers |-> "idle"]
    /\ tlocal = [t \in Callers |-> None]

\* a handler reaches self.client or self.model
Enter(t) ==
    /\ tpc[t] = "idle"
    /\ \E prop \in {"client", "model"} : tcall' = [tcall EXCEPT ![t] = prop]
    /\ tpc' = [tpc EXCEPT ![t] = "test"]
    /\ UNCHANGED <<_client, _model, _model_load_attempted, client_built, model_built,
                   tlocal>>
    /\ CFrame

\* LLMFilter.client:  if self._client is None
ClientTest(t) ==
    /\ tpc[t] = "test"
    /\ tcall[t] = "client"
    /\ tpc' = [tpc EXCEPT ![t] = IF _client = None THEN "build" ELSE "return"]
    /\ UNCHANGED <<_client, _model, _model_load_attempted, client_built, model_built,
                   tcall, tlocal>>
    /\ CFrame

\* LLMFilter.client:  OpenAI(**client_kwargs)
ClientBuild(t) ==
    /\ tpc[t] = "build"
    /\ tcall[t] = "client"
    /\ client_built' = client_built + 1
    /\ tlocal' = [tlocal EXCEPT ![t] = Some(client_built + 1)]
    /\ tpc' = [tpc EXCEPT ![t] = "store"]
    /\ UNCHANGED <<_client, _model, _model_load_attempted, model_built, tcall>>
    /\ CFrame

\* LLMFilter.client:  self._client = ...
ClientStore(t) ==
    /\ tpc[t] = "store"
    /\ tcall[t] = "client"
    /\ _client' = tlocal[t]
    /\ tpc' = [tpc EXCEPT ![t] = "return"]
    /\ UNCHANGED <<_model, _model_load_attempted, client_built, model_built, tcall,
                   tlocal>>
    /\ CFrame

\* SemanticSearch.model:  if self._model is None and not self._model_load_attempted
ModelTest(t) ==
    /\ tpc[t] = "test"
    /\ tcall[t] = "model"
    /\ tpc' = [tpc EXCEPT ![t] = IF _model = None /\ ~_model_load_attempted
                                 THEN "flag" ELSE "return"]
    /\ UNCHANGED <<_client, _model, _model_load_attempted, client_built, model_built,
                   tcall, tlocal>>
    /\ CFrame

\* SemanticSearch.model:  self._model_load_attempted = True
ModelFlag(t) ==
    /\ tpc[t] = "flag"
    /\ _model_load_attempted' = TRUE
    /\ tpc' = [tpc EXCEPT ![t] = "build"]
    /\ UNCHANGED <<_client, _model, client_built, model_built, tcall, tlocal>>
    /\ CFrame

\* SemanticSearch.model:  SentenceTransformer(self.model_name), or the
\* ImportError or OSError that the property swallows
ModelBuild(t) ==
    /\ tpc[t] = "build"
    /\ tcall[t] = "model"
    /\ \/ /\ model_built' = model_built + 1
          /\ tlocal' = [tlocal EXCEPT ![t] = Some(model_built + 1)]
          /\ tpc' = [tpc EXCEPT ![t] = "store"]
       \/ /\ tpc' = [tpc EXCEPT ![t] = "return"]
          /\ UNCHANGED <<model_built, tlocal>>
    /\ UNCHANGED <<_client, _model, _model_load_attempted, client_built, tcall>>
    /\ CFrame

\* SemanticSearch.model:  self._model = ...
ModelStore(t) ==
    /\ tpc[t] = "store"
    /\ tcall[t] = "model"
    /\ _model' = tlocal[t]
    /\ tpc' = [tpc EXCEPT ![t] = "return"]
    /\ UNCHANGED <<_client, _model_load_attempted, client_built, model_built, tcall,
                   tlocal>>
    /\ CFrame

\* the property returns self._client or self._model
Return(t) ==
    /\ tpc[t] = "return"
    /\ tlocal' = [tlocal EXCEPT ![t] = IF tcall[t] = "client" THEN _client ELSE _model]
    /\ tpc' = [tpc EXCEPT ![t] = "done"]
    /\ UNCHANGED <<_client, _model, _model_load_attempted, client_built, model_built,
                   tcall>>
    /\ CFrame

CNext ==
    \E t \in Callers :
        \/ Enter(t)
        \/ ClientTest(t) \/ ClientBuild(t) \/ ClientStore(t)
        \/ ModelTest(t) \/ ModelFlag(t) \/ ModelBuild(t) \/ ModelStore(t)
        \/ Return(t)

-----------------------------------------------------------------------------
(* JournalFilter.                                                          *)

\* the keys of JOURNAL_TIERS: "tier1", "tier2", "ml", "preprints"
tier1 == <<"t", "i", "e", "r", "1">>
tier2 == <<"t", "i", "e", "r", "2">>
ml == <<"m", "l">>
preprints == <<"p", "r", "e", "p", "r", "i", "n", "t", "s">>

\* JOURNAL_TIERS, in the order of the dict: the key and the journals of each tier
JOURNAL_TIERS ==
    << [tier |-> tier1,
        journals |->
            << <<"N", "a", "t", "u", "r", "e">>,
               <<"S", "c", "i", "e", "n", "c", "e">>,
               <<"C", "e", "l", "l">>,
               <<"T", "h", "e", " ", "N", "e", "w", " ", "E", "n", "g", "l", "a", "n", "d", " ", "J", "o", "u", "r", "n", "a", "l", " ", "o", "f", " ", "M", "e", "d", "i", "c", "i", "n", "e">>,
               <<"N", "E", "J", "M">>,
               <<"L", "a", "n", "c", "e", "t">>,
               <<"T", "h", "e", " ", "L", "a", "n", "c", "e", "t">> >>],
       [tier |-> tier2,
        journals |->
            << <<"N", "a", "t", "u", "r", "e", " ", "M", "e", "t", "h", "o", "d", "s">>,
               <<"N", "a", "t", "u", "r", "e", " ", "C", "o", "m", "m", "u", "n", "i", "c", "a", "t", "i", "o", "n", "s">>,
               <<"P", "N", "A", "S">>,
               <<"P", "r", "o", "c", "e", "e", "d", "i", "n", "g", "s", " ", "o", "f", " ", "t", "h", "e", " ", "N", "a", "t", "i", "o", "n", "a", "l", " ", "A", "c", "a", "d", "e", "m", "y", " ", "o", "f", " ", "S", "c", "i", "e", "n", "c", "e", "s">>,
               <<"e", "L", "i", "f", "e">>,
               <<"N", "a", "t", "u", "r", "e", " ", "B", "i", "o", "t", "e", "c", "h", "n", "o", "l", "o", "g", "y">>,
               <<"N", "a", "t", "u", "r", "e", " ", "G", "e", "n", "e", "t", "i", "c", "s">>,
               <<"N", "a", "t", "u", "r", "e", " ", "M", "e", "d", "i", "c", "i", "n", "e">>,
               <<"N", "a", "t", "u", "r", "e", " ", "R", "e", "v", "i", "e", "w", "s">> >>],
       [tier |-> ml,
        journals |->
            << <<"N", "e", "u", "r", "I", "P", "S">>,
               <<"I", "C", "M", "L">>,
               <<"I", "C", "L", "R">>,
               <<"N", "a", "t", "u", "r", "e", " ", "M", "a", "c", "h", "i", "n", "e", " ", "I", "n", "t", "e", "l", "l", "i", "g", "e", "n", "c", "e">>,
               <<"J", "o", "u", "r", "n", "a", "l", " ", "o", "f", " ", "M", "a", "c", "h", "i", "n", "e", " ", "L", "e", "a", "r", "n", "i", "n", "g", " ", "R", "e", "s", "e", "a", "r", "c", "h">>,
               <<"J", "M", "L", "R">>,
               <<"A", "d", "v", "a", "n", "c", "e", "s", " ", "i", "n", " ", "N", "e", "u", "r", "a", "l", " ", "I", "n", "f", "o", "r", "m", "a", "t", "i", "o", "n", " ", "P", "r", "o", "c", "e", "s", "s", "i", "n", "g", " ", "S", "y", "s", "t", "e", "m", "s">> >>],
       [tier |-> preprints,
        journals |->
            << <<"b", "i", "o", "R", "x", "i", "v">>,
               <<"a", "r", "X", "i", "v">>,
               <<"m", "e", "d", "R", "x", "i", "v">> >>] >>

\* journal names as the sources report them: "Nature", "Nature Methods",
\* "nature methods", "bioRxiv", "NeurIPS", "Some Random Journal", "Cell Reports",
\* "rxiv" and the empty name
JNature == <<"N", "a", "t", "u", "r", "e">>
JNatureMethods == <<"N", "a", "t", "u", "r", "e", " ", "M", "e", "t", "h", "o", "d", "s">>
JNatureMethodsLower == <<"n", "a", "t", "u", "r", "e", " ", "m", "e", "t", "h", "o", "d", "s">>
JBioRxiv == <<"b", "i", "o", "R", "x", "i", "v">>
JNeurIPS == <<"N", "e", "u", "r", "I", "P", "S">>
JSomeRandomJournal == <<"S", "o", "m", "e", " ", "R", "a", "n", "d", "o", "m", " ", "J", "o", "u", "r", "n", "a", "l">>
JCellReports == <<"C", "e", "l", "l", " ", "R", "e", "p", "o", "r", "t", "s">>
JRxiv == <<"r", "x", "i", "v">>
JEmpty == <<>>

JournalNames ==
    {JNature, JNatureMethods, JNatureMethodsLower, JBioRxiv, JNeurIPS,
     JSomeRandomJournal, JCellReports, JRxiv, JEmpty}

\* a tier name that is no key of JOURNAL_TIERS, and "Tier2" as a config may spell it
tier3 == <<"t", "i", "e", "r", "3">>
Tier2Capital == <<"T", "i", "e", "r", "2">>

\* the (tier, journal) pairs in the order the loops over JOURNAL_TIERS visit them,
\* each with its journal.lower()
RECURSIVE TierEntriesFrom(_)
TierEntriesFrom(t) ==
    IF t > Len(JOURNAL_TIERS) THEN <<>>
    ELSE [k \in 1..Len(JOURNAL_TIERS[t].journals) |->
             [tier |-> JOURNAL_TIERS[t].tier, journal |-> JOURNAL_TIERS[t].journals[k],
              journal_lower |-> Lower(JOURNAL_TIERS[t].journals[k])]]
         \o TierEntriesFrom(t + 1)

TierEntries == TierEntriesFrom(1)

\* _build_lookup_tables: every entry is stored under its lower-cased name, a later
\* entry of the same key replacing an earlier one
_tier_lookup ==
    LET keys == {TierEntries[i].journal_lower : i \in 1..Len(TierEntries)}
        last(key) == CHOOSE i \in 1..Len(TierEntries) :
                        /\ TierEntries[i].journal_lower = key
                        /\ \A j \in (i + 1)..Len(TierEntries) :
                               TierEntries[j].journal_lower # key
    IN  [key \in keys |-> TierEntries[last(key)].tier]

\* the partial matching loop of get_journal_tier: the tier of the first entry, in
\* the order of the loops, that is inside the name or that the name is inside of
PartialTier(journal_lower) ==
    LET hits == {i \in 1..Len(TierEntries) :
                    \/ IsSubstr(TierEntries[i].journal_lower, journal_lower)
                    \/ IsSubstr(journal_lower, TierEntries[i].journal_lower)}
    IN  IF hits = {} THEN None
        ELSE Some(TierEntries[CHOOSE i \in hits : \A j \in hits : i <= j].tier)

\* get_journal_tier without its direct lookup
get_journal_tier_partial_only(journal) == PartialTier(Lower(journal))

\* JournalFilter.get_journal_tier
get_journal_tier(journal) ==
    LET journal_lower == Lower(journal)
    IN  IF journal_lower \in DOMAIN _tier_lookup
        THEN Some(_tier_lookup[journal_lower])
        ELSE PartialTier(journal_lower)

\* JournalConfig
JournalConfig(include, exclude, tiers, show_preprints) ==
    [include |-> include, exclude |-> exclude, tiers |-> tiers,
     show_preprints |-> show_preprints]

\* JournalConfig(): the defaults of the dataclass
DefaultJournalConfig == JournalConfig(<<>>, <<>>, <<>>, TRUE)

\* the configurations a JournalFilter is built with
JournalConfigs ==
    {JournalConfig(i, e, t, s) :
        i \in {<<>>, <<JSomeRandomJournal>>},
        e \in {<<>>, <<JNature>>},
        t \in {<<>>, <<tier1>>, <<Tier2Capital, ml>>, <<tier3>>},
        s \in BOOLEAN}

\* {j.lower() for j in journals}
LowerSet(journals) == {Lower(journals[i]) : i \in 1..Len(journals)}

\* x or y, for an argument x that is None or a list
OrConfig(x, y) == IF x # None /\ x[1] # <<>> THEN x[1] ELSE y

\* {j.lower() for j in JOURNAL_TIERS[tier]}, for every tier of the dict
LoweredTier == [t \in 1..Len(JOURNAL_TIERS) |-> LowerSet(JOURNAL_TIERS[t].journals)]

\* the lower-cased journals of the tier with this key, none when JOURNAL_TIERS has
\* no such key
TierJournals(tier_lower) ==
    LET at == {t \in 1..Len(JOURNAL_TIERS) : JOURNAL_TIERS[t].tier = tier_lower}
    IN  IF at = {} THEN {} ELSE LoweredTier[CHOOSE t \in at : TRUE]

\* JournalFilter._matches_any
_matches_any(journal, journal_set) ==
    \/ journal \in journal_set
    \/ \E j \in journal_set : IsSubstr(j, journal) \/ IsSubstr(journal, j)

\* the set allowed_journals that filter_papers builds
AllowedJournals(include_journals, tiers_given, show) ==
    UNION {TierJournals(Lower(tiers_given[i])) : i \in 1..Len(tiers_given)}
    \cup LowerSet(include_journals)
    \cup (IF show THEN TierJournals(preprints) ELSE {})

\* the value the parameter show_preprints is bound to: the argument when the call
\* passes one, the default True of the signature when it does not
BoundShowPreprints(args) ==
    IF args.passes_show_preprints THEN args.show_preprints ELSE Some(TRUE)

\* JournalFilter.filter_papers
filter_papers(config, ps, args) ==
    IF ps = <<>> THEN <<>>
    ELSE
    LET include_journals == OrConfig(args.include_journals, config.include)
        exclude_journals == OrConfig(args.exclude_journals, config.exclude)
        tiers_given == OrConfig(args.tiers, config.tiers)
        bound == BoundShowPreprints(args)
        show == IF bound # None THEN bound[1] ELSE config.show_preprints
        allowed_journals == AllowedJournals(include_journals, tiers_given, show)
        excluded_journals == LowerSet(exclude_journals)
        keep(p) ==
            LET journal_lower == Lower(p.journal)
            IN  /\ ~_matches_any(journal_lower, excluded_journals)
                /\ \/ allowed_journals = {}
                   \/ _matches_any(journal_lower, allowed_journals)
    IN  SelectSeq(ps, keep)

\* the journals of the papers handed to filter_papers
PaperJournals == {JNature, JBioRxiv, JSomeRandomJournal, JNatureMethods}

\* the lists of papers handed to filter_papers
JournalPaperLists ==
    UNION {[1..n -> [journal : PaperJournals]] : n \in 0..MaxJournalPapers}

\* the arguments of a call of filter_papers
FilterArgs ==
    [include_journals : {None, Some(<<JSomeRandomJournal>>)},
     exclude_journals : {None, Some(<<JNature>>)},
     tiers : {None, Some(<<tier1>>)},
     passes_show_preprints : BOOLEAN,
     show_preprints : {None, Some(TRUE), Some(FALSE)}]

\* the calls as Python can make them: a call that passes no show_preprints has none
FilterCalls == {a \in FilterArgs : a.passes_show_preprints \/ a.show_preprints = None}

\* no call made: filter_papers(papers)
NoArgs ==
    [include_journals |-> None, exclude_journals |-> None, tiers |-> None,
     passes_show_preprints |-> FALSE, show_preprints |-> None]

\* JOURNAL_ALIASES, in the order of the dict
JOURNAL_ALIASES ==
    << [alias |-> <<"n", "e", "j", "m">>,
        name |-> <<"T", "h", "e", " ", "N", "e", "w", " ", "E", "n", "g", "l", "a", "n", "d", " ", "J", "o", "u", "r", "n", "a", "l", " ", "o", "f", " ", "M", "e", "d", "i", "c", "i", "n", "e">>],
       [alias |-> <<"n", "e", "w", " ", "e", "n", "g", "l", "a", "n", "d", " ", "j", "o", "u", "r", "n", "a", "l", " ", "o", "f", " ", "m", "e", "d", "i", "c", "i", "n", "e">>,
        name |-> <<"T", "h", "e", " ", "N", "e", "w", " ", "E", "n", "g", "l", "a", "n", "d", " ", "J", "o", "u", "r", "n", "a", "l", " ", "o", "f", " ", "M", "e", "d", "i", "c", "i", "n", "e">>],
       [alias |-> <<"p", "n", "a", "s">>,
        name |-> <<"P", "r", "o", "c", "e", "e", "d", "i", "n", "g", "s", " ", "o", "f", " ", "t", "h", "e", " ", "N", "a", "t", "i", "o", "n", "a", "l", " ", "A", "c", "a", "d", "e", "m", "y", " ", "o", "f", " ", "S", "c", "i", "e", "n", "c", "e", "s">>],
       [alias |-> <<"p", "r", "o", "c", " ", "n", "a", "t", "l", " ", "a", "c", "a", "d", " ", "s", "c", "i">>,
        name |-> <<"P", "r", "o", "c", "e", "e", "d", "i", "n", "g", "s", " ", "o", "f", " ", "t", "h", "e", " ", "N", "a", "t", "i", "o", "n", "a", "l", " ", "A", "c", "a", "d", "e", "m", "y", " ", "o", "f", " ", "S", "c", "i", "e", "n", "c", "e", "s">>],
       [alias |-> <<"j", "m", "l", "r">>,
        name |-> <<"J", "o", "u", "r", "n", "a", "l", " ", "o", "f", " ", "M", "a", "c", "h", "i", "n", "e", " ", "L", "e", "a", "r", "n", "i", "n", "g", " ", "R", "e", "s", "e", "a", "r", "c", "h">>],
       [alias |-> <<"n", "a", "t", " ", "m", "e", "t", "h", "o", "d", "s">>,
        name |-> <<"N", "a", "t", "u", "r", "e", " ", "M", "e", "t", "h", "o", "d", "s">>],
       [alias |-> <<"n", "a", "t", " ", "c", "o", "m", "m", "u", "n">>,
        name |-> <<"N", "a", "t", "u", "r", "e", " ", "C", "o", "m", "m", "u", "n", "i", "c", "a", "t", "i", "o", "n", "s">>],
       [alias |-> <<"n", "a", "t", " ", "b", "i", "o", "t", "e", "c", "h", "n", "o", "l">>,
        name |-> <<"N", "a", "t", "u", "r", "e", " ", "B", "i", "o", "t", "e", "c", "h", "n", "o", "l", "o", "g", "y">>],
       [alias |-> <<"n", "a", "t", " ", "g", "e", "n", "e", "t">>,
        name |-> <<"N", "a", "t", "u", "r", "e", " ", "G", "e", "n", "e", "t", "i", "c", "s">>],
       [alias |-> <<"n", "a", "t", " ", "m", "e", "d">>,
        name |-> <<"N", "a", "t", "u", "r", "e", " ", "M", "e", "d", "i", "c", "i", "n", "e">>],
       [alias |-> <<"n", "a", "t", " ", "m", "a", "c", "h", " ", "i", "n", "t", "e", "l", "l">>,
        name |-> <<"N", "a", "t", "u", "r", "e", " ", "M", "a", "c", "h", "i", "n", "e", " ", "I", "n", "t", "e", "l", "l", "i", "g", "e", "n", "c", "e">>] >>

\* JOURNAL_EMOJIS, the icons by their names
JOURNAL_EMOJIS ==
    << [key |-> tier1, emoji |-> "trophy"], [key |-> tier2, emoji |-> "star"],
       [key |-> ml, emoji |-> "robot"], [key |-> preprints, emoji |-> "memo"],
       [key |-> <<"d", "e", "f", "a", "u", "l", "t">>, emoji |-> "page"] >>

\* str.strip(), for the blank
RECURSIVE Strip(_)
Strip(s) ==
    IF s = <<>> THEN s
    ELSE IF Head(s) = " " THEN Strip(Tail(s))
    ELSE IF s[Len(s)] = " " THEN Strip(SubSeq(s, 1, Len(s) - 1))
    ELSE s

\* JournalFilter.normalize_journal_name
normalize_journal_name(name) ==
    LET name_lower == Strip(Lower(name))
        at == {i \in 1..Len(JOURNAL_ALIASES) : JOURNAL_ALIASES[i].alias = name_lower}
    IN  IF at # {} THEN JOURNAL_ALIASES[CHOOSE i \in at : TRUE].name ELSE Strip(name)

\* JournalFilter.get_journal_emoji
get_journal_emoji(journal) ==
    LET tier == get_journal_tier(journal)
        at == {i \in 1..Len(JOURNAL_EMOJIS) : tier # None /\ JOURNAL_EMOJIS[i].key = tier[1]}
    IN  IF at # {} THEN JOURNAL_EMOJIS[CHOOSE i \in at : TRUE].emoji
        ELSE JOURNAL_EMOJIS[Len(JOURNAL_EMOJIS)].emoji

\* JournalFilter.get_journal_info
get_journal_info(journal) ==
    LET normalized == normalize_journal_name(journal)
        tier == get_journal_tier(journal)
        emoji == get_journal_emoji(journal)
    IN  [name |-> journal, normalized_name |-> normalized, tier |-> tier, emoji |-> emoji]

\* the names handed to get_journal_info: the abbreviations and the canonical names of
\* the alias table, a name with blanks around it, a name of no table
InfoNames ==
    {JOURNAL_ALIASES[i].alias : i \in 1..Len(JOURNAL_ALIASES)}
    \cup {JOURNAL_ALIASES[i].name : i \in 1..Len(JOURNAL_ALIASES)}
    \cup {<<" ", "P", "N", "A", "S", " ">>, JSomeRandomJournal}

\* no JournalInfo built
NoInfo == [name |-> <<>>, normalized_name |-> <<>>, tier |-> None, emoji |-> "page"]

\* a JournalFilter nothing uses
JIdle ==
    /\ jconfig = DefaultJournalConfig
    /\ jop = "new"
    /\ jname = <<>>
    /\ jtier = None
    /\ jinfo = NoInfo
    /\ jpapers = <<>>
    /\ jargs = NoArgs
    /\ jfiltered = <<>>

\* JournalFilter(config)
JInit ==
    /\ jconfig \in JournalConfigs
    /\ jop = "new"
    /\ jname = <<>>
    /\ jtier = None
    /\ jinfo = NoInfo
    /\ jpapers = <<>>
    /\ jargs = NoArgs
    /\ jfiltered = <<>>

\* get_journal_tier(journal), on the filter as it was constructed
GetJournalTier ==
    /\ jop = "new"
    /\ \E journal \in JournalNames :
          /\ jname' = journal
          /\ jtier' = get_journal_tier(journal)
    /\ jop' = "get_journal_tier"
    /\ UNCHANGED <<jconfig, jinfo, jpapers, jargs, jfiltered>>
    /\ JFrame

\* get_journal_info(journal), on the filter as it was constructed
GetJournalInfo ==
    /\ jop = "new"
    /\ \E journal \in InfoNames :
          /\ jname' = journal
          /\ jinfo' = get_journal_info(journal)
    /\ jop' = "get_journal_info"
    /\ UNCHANGED <<jconfig, jtier, jpapers, jargs, jfiltered>>
    /\ JFrame

\* filter_papers(papers, ...), on the filter as it was constructed
FilterPapers ==
    /\ jop = "new"
    /\ \E ps \in JournalPaperLists, args \in FilterCalls :
          /\ jpapers' = ps
          /\ jargs' = args
          /\ jfiltered' = filter_papers(jconfig, ps, args)
    /\ jop' = "filter_papers"
    /\ UNCHANGED <<jconfig, jname, jtier, jinfo>>
    /\ JFrame

JNext == GetJournalTier \/ GetJournalInfo \/ FilterPapers

-----------------------------------------------------------------------------
(* Database: the table papers.                                             *)

\* a Paper as the store reads it: its title, its doi (None or a string) and its
\* journal stand for all its fields
StorePaper(title, doi, journal) == [title |-> title, doi |-> doi, journal |-> journal]

\* "10.1/a" and "10.1/b"
DoiA == <<"1", "0", ".", "1", "/", "a">>
DoiB == <<"1", "0", ".", "1", "/", "b">>

\* "T", "U", "" and " "
TitleT == <<"T">>
TitleU == <<"U">>
TitleEmpty == <<>>
TitleBlank == <<" ">>

\* the papers handed to the store: two papers of one DOI, a paper with an empty and
\* one with a blank title, a paper with no DOI and one with the DOI ""
StorePapers ==
    {StorePaper(TitleT, Some(DoiA), JNature),
     StorePaper(TitleU, Some(DoiA), JBioRxiv),
     StorePaper(TitleEmpty, Some(DoiB), JNature),
     StorePaper(TitleBlank, Some(DoiB), JNature),
     StorePaper(TitleT, None, JNature),
     StorePaper(TitleT, Some(<<>>), JNature)}

\* the DOIs the store is asked about
StoreDois == {DoiA, DoiB, <<>>}

\* if paper.doi: neither None nor ""
DoiTruthy(doi) == doi # None /\ doi[1] # <<>>

\* SELECT ... FROM papers WHERE doi = ?: the indices of the rows with this doi
RowsWithDoi(rs, doi) == {i \in 1..Len(rs) : rs[i].doi = Some(doi)}

\* the row INSERT INTO papers adds: AUTOINCREMENT gives it the next id
NewRow(rs, paper) ==
    [id |-> Len(rs) + 1, title |-> paper.title, doi |-> paper.doi,
     journal |-> paper.journal]

\* save_paper with INSERT OR REPLACE in place of the SELECT: the last write wins
save_paper_last_wins(rs, paper) ==
    IF paper.doi # None /\ RowsWithDoi(rs, paper.doi[1]) # {}
    THEN LET i == CHOOSE i \in RowsWithDoi(rs, paper.doi[1]) : TRUE
         IN  [rows |-> [rs EXCEPT ![i] = [NewRow(rs, paper) EXCEPT !.id = rs[i].id]],
              id |-> rs[i].id, raised |-> FALSE]
    ELSE [rows |-> Append(rs, NewRow(rs, paper)), id |-> Len(rs) + 1, raised |-> FALSE]

\* Database.save_paper: the rows after the call, the id it returned, and whether it
\* raised (the UNIQUE constraint on doi; nothing is committed then)
save_paper(rs, paper) ==
    IF DoiTruthy(paper.doi) /\ RowsWithDoi(rs, paper.doi[1]) # {}
    THEN [rows |-> rs,
          id |-> rs[CHOOSE i \in RowsWithDoi(rs, paper.doi[1]) : TRUE].id,
          raised |-> FALSE]
    ELSE IF paper.doi # None /\ RowsWithDoi(rs, paper.doi[1]) # {}
    THEN [rows |-> rs, id |-> 0, raised |-> TRUE]
    ELSE [rows |-> Append(rs, NewRow(rs, paper)), id |-> Len(rs) + 1, raised |-> FALSE]

\* Database.save_papers: save_paper of each paper in turn; an exception ends the
\* comprehension and the ids are lost, the rows saved so far stay
RECURSIVE save_papers_from(_, _, _, _)
save_papers_from(rs, ps, k, ids) ==
    IF k > Len(ps) THEN [rows |-> rs, ids |-> ids, raised |-> FALSE]
    ELSE LET r == save_paper(rs, ps[k])
         IN  IF r.raised THEN [rows |-> rs, ids |-> <<>>, raised |-> TRUE]
             ELSE save_papers_from(r.rows, ps, k + 1, Append(ids, r.id))

save_papers(rs, ps) == save_papers_from(rs, ps, 1, <<>>)

\* Database.paper_exists
paper_exists(rs, doi) == RowsWithDoi(rs, doi) # {}

\* get_existing_dois that finds nothing
get_existing_dois_nothing(rs, dois) == {}

\* Database.get_existing_dois
get_existing_dois(rs, dois) ==
    IF dois = <<>> THEN {}
    ELSE {dois[k] : k \in {k \in 1..Len(dois) : RowsWithDoi(rs, dois[k]) # {}}}

\* a database nothing has been saved to
DInit ==
    /\ rows = <<>>
    /\ dop = "new"
    /\ dpapers = <<>>
    /\ dids = <<>>
    /\ ddois = <<>>
    /\ dfound = {}

\* save_paper(paper)
SavePaper ==
    /\ Len(rows) < MaxRows
    /\ \E paper \in StorePapers :
          LET r == save_paper(rows, paper)
          IN  /\ rows' = r.rows
              /\ dpapers' = <<paper>>
              /\ dids' = IF r.raised THEN <<>> ELSE <<r.id>>
              /\ dop' = IF r.raised THEN "raised" ELSE "save_paper"
    /\ UNCHANGED <<ddois, dfound>>
    /\ DFrame

\* save_papers(papers)
SavePapers ==
    /\ \E ps \in SeqsUpTo(StorePapers, MaxSaved) :
          /\ Len(rows) + Len(ps) <= MaxRows
          /\ LET r == save_papers(rows, ps)
             IN  /\ rows' = r.rows
                 /\ dpapers' = ps
                 /\ dids' = r.ids
                 /\ dop' = IF r.raised THEN "raised" ELSE "save_papers"
    /\ UNCHANGED <<ddois, dfound>>
    /\ DFrame

\* paper_exists(doi)
PaperExists ==
    /\ \E doi \in StoreDois :
          /\ ddois' = <<doi>>
          /\ dfound' = IF paper_exists(rows, doi) THEN {doi} ELSE {}
    /\ dop' = "paper_exists"
    /\ UNCHANGED <<rows, dpapers, dids>>
    /\ DFrame

\* get_existing_dois(dois)
GetExistingDois ==
    /\ \E dois \in SeqsUpTo(StoreDois, MaxAsked) :
          /\ ddois' = dois
          /\ dfound' = get_existing_dois(rows, dois)
    /\ dop' = "get_existing_dois"
    /\ UNCHANGED <<rows, dpapers, dids>>
    /\ DFrame

DNext == SavePaper \/ SavePapers \/ PaperExists \/ GetExistingDois

-----------------------------------------------------------------------------
(* SlackFormatter, and the loop of post_papers that posts the digest.      *)

MAX_BLOCKS_PER_MESSAGE == 50

\* a Slack block: its type, what its text is, and the paper it is about (0: none)
Block(type, txt, paper) == [type |-> type, text |-> txt, paper |-> paper]

\* a paper as format_paper reads it; title stands for the title and the url
ShownPaper(title, journal, score) ==
    [title |-> title, journal |-> journal, relevance_score |-> score,
     abstract |-> <<>>]

\* dict.get(key, default)
DictGet(d, key, default) == IF key \in DOMAIN d THEN d[key] ELSE default

\* JournalFilter.categorize_papers: the papers of each tier, and the others
categorize_papers(ps) ==
    LET in(tier) == SelectSeq(ps, LAMBDA p : get_journal_tier(p.journal) = tier)
    IN  [tier1 |-> in(Some(tier1)), tier2 |-> in(Some(tier2)), ml |-> in(Some(ml)),
         preprints |-> in(Some(preprints)), other |-> in(None)]

\* SlackFormatter.format_paper
format_paper(paper, show_abstract, show_relevance, show_actions) ==
    <<Block("section", "title", paper.title), Block("context", "metadata", paper.title)>>
    \o (IF show_relevance /\ paper.relevance_score # None
        THEN <<Block("section", "relevance", paper.title)>> ELSE <<>>)
    \o (IF show_abstract /\ paper.abstract # <<>>
        THEN <<Block("section", "abstract", paper.title)>> ELSE <<>>)
    \o (IF show_actions THEN <<Block("actions", "buttons", paper.title)>> ELSE <<>>)
    \o <<Block("divider", "", 0)>>

\* for paper in papers: blocks.extend(self.format_paper(paper, ...))
RECURSIVE FormatEach(_)
FormatEach(ps) ==
    IF ps = <<>> THEN <<>>
    ELSE format_paper(Head(ps), FALSE, TRUE, TRUE) \o FormatEach(Tail(ps))

\* the two lists format_digest and format_papers take from categorize_papers
DigestSections(ps) ==
    LET categorized == categorize_papers(ps)
    IN  [journal_papers |-> DictGet(categorized, "journals", <<>>),
         preprint_papers |-> DictGet(categorized, "preprints", <<>>)]

\* SlackFormatter.format_digest
format_digest(ps, date) ==
    LET sections == DigestSections(ps)
        journal_papers == sections.journal_papers
        preprint_papers == sections.preprint_papers
    IN  <<Block("header", date, 0)>>
        \o (IF journal_papers # <<>> \/ preprint_papers # <<>>
            THEN <<Block("section", "summary", 0)>> ELSE <<>>)
        \o <<Block("divider", "", 0)>>
        \o (IF journal_papers # <<>>
            THEN <<Block("section", "Journal Articles", 0)>> \o FormatEach(journal_papers)
            ELSE <<>>)
        \o (IF preprint_papers # <<>>
            THEN <<Block("section", "Preprints", 0)>> \o FormatEach(preprint_papers)
            ELSE <<>>)

\* the loop of split_blocks: batches of max_blocks blocks, and the rest
RECURSIVE SplitLoop(_, _)
SplitLoop(bl, max_blocks) ==
    IF bl = <<>> THEN <<>>
    ELSE IF Len(bl) <= max_blocks THEN <<bl>>
    ELSE <<SubSeq(bl, 1, max_blocks)>> \o SplitLoop(SubSeq(bl, max_blocks + 1, Len(bl)), max_blocks)

\* SlackFormatter.split_blocks
split_blocks(bl, max_blocks) ==
    IF Len(bl) <= max_blocks THEN <<bl>> ELSE SplitLoop(bl, max_blocks)

\* SlackFormatter.create_continuation_header
create_continuation_header(title, part_number) == Block("section", title, part_number)

\* SlackFormatter.format_error
format_error == <<Block("section", "Error", 0)>>

\* the journals of the papers of a digest, taken in turn
DigestJournalTurns == {<<JBioRxiv>>, <<JNature>>, <<JNature, JBioRxiv, JSomeRandomJournal>>}

\* the lists handed to format_digest: up to MaxDigestPapers papers titled 1, 2, ...,
\* all of them with a relevance score or none
DigestPaperLists ==
    {[k \in 1..n |-> ShownPaper(k, turns[((k - 1) % Len(turns)) + 1], score)] :
        n \in 0..MaxDigestPapers, turns \in DigestJournalTurns,
        score \in {None, Some(80)}}

\* nothing formatted yet
BInit ==
    /\ bpapers = <<>>
    /\ digest_blocks = <<>>
    /\ block_batches = <<>>
    /\ messages = <<>>
    /\ bpc = "idle"

\* post_papers from format_digest on: the blocks of the digest, split into batches
FormatDigest ==
    /\ bpc = "idle"
    /\ \E ps \in DigestPaperLists :
          /\ bpapers' = ps
          /\ digest_blocks' = format_digest(ps, "2024-01-01")
          /\ block_batches' = split_blocks(format_digest(ps, "2024-01-01"), MAX_BLOCKS_PER_MESSAGE)
    /\ bpc' = "posting"
    /\ UNCHANGED messages
    /\ BFrame

\* one turn of the loop over block_batches: the continuation header is inserted into
\* every batch but the first, and the batch is posted
PostMessage ==
    /\ bpc = "posting"
    /\ Len(messages) < Len(block_batches)
    /\ LET i == Len(messages)
           batch == block_batches[i + 1]
       IN  messages' = Append(messages,
               IF i > 0
               THEN <<create_continuation_header("Paper Digest", i + 1)>> \o batch
               ELSE batch)
    /\ bpc' = IF Len(messages) + 1 = Len(block_batches) THEN "done" ELSE "posting"
    /\ UNCHANGED <<bpapers, digest_blocks, block_batches>>
    /\ BFrame

\* chat_postMessage raises in a turn of the loop: the except clause posts the error
PostRaises ==
    /\ bpc = "posting"
    /\ Len(messages) < Len(block_batches)
    /\ messages' = Append(messages, format_error)
    /\ bpc' = "failed"
    /\ UNCHANGED <<bpapers, digest_blocks, block_batches>>
    /\ BFrame

BNext == FormatDigest \/ PostMessage \/ PostRaises

-----------------------------------------------------------------------------
(* PaperSlackBot.post_papers: the digest run.                              *)

\* the papers the sources report: two records of one DOI, a paper of another DOI
\* and a paper with the DOI ""
DigestCatalogue ==
    << StorePaper(TitleT, Some(DoiA), JNature),
       StorePaper(TitleU, Some(DoiA), JBioRxiv),
       StorePaper(TitleT, Some(DoiA), JBioRxiv),
       StorePaper(TitleT, Some(DoiB), JBioRxiv),
       StorePaper(TitleT, Some(<<>>), JBioRxiv) >>

\* the elements of a list at the increasing indices ix, in that order
RECURSIVE PickFrom(_, _, _)
PickFrom(s, ix, k) ==
    IF k > Len(s) THEN <<>>
    ELSE (IF k \in ix THEN <<s[k]>> ELSE <<>>) \o PickFrom(s, ix, k + 1)

\* the lists made of some elements of a list, in the order of the list
SubLists(s) == {PickFrom(s, ix, 1) : ix \in SUBSET (1..Len(s))}

\* what fetch_all returns: some papers of the catalogue, at most MaxFetched
FetchedLists == {ps \in SubLists(DigestCatalogue) : Len(ps) <= MaxFetched}

\* the exclude-only journal filter post_papers is written against: it returns the
\* papers whose journal matches no exclusion entry, and the excluded journals
filter_papers_exclude_only(config, ps) ==
    LET excluded_journals == LowerSet(config.exclude)
        keep(p) == ~_matches_any(Lower(p.journal), excluded_journals)
    IN  <<SelectSeq(ps, keep), config.exclude>>

\* papers, _ = self.journal_filter.filter_papers(papers): the papers left, or
\* "raised" when the value is no pair of lists. JournalFilter.filter_papers of
\* journal_filter.py returns one list: unpacking it raises ValueError unless it has
\* two elements, and then papers is bound to a Paper, which the next statements
\* cannot iterate or take len() of; the run raises whatever the list holds.
JournalFilterStep(shape, config, ps) ==
    IF shape = "pair"
    THEN [raised |-> FALSE, papers |-> filter_papers_exclude_only(config, ps)[1]]
    ELSE [raised |-> TRUE, papers |-> <<>>]

\* what LLMFilter.filter_papers may return for a list: some of its papers, in the
\* order of their scores; the list itself when there is no llm_filter
LLMFilterOutcomes(ps) == UNION {Perms(kept) : kept \in SubLists(ps)}

\* [p.doi for p in papers if p.doi]
PaperDois(ps) ==
    LET has(p) == DoiTruthy(p.doi)
        with == SelectSeq(ps, has)
    IN  [k \in 1..Len(with) |-> with[k].doi[1]]

\* [p for p in papers if not (p.doi and p.doi in existing_dois)]
NewPapers(ps, existing_dois) ==
    LET new(p) == ~(DoiTruthy(p.doi) /\ p.doi[1] \in existing_dois)
    IN  SelectSeq(ps, new)

\* the journal configurations of the bot: nothing excluded, or Nature excluded
JDigest ==
    /\ jconfig \in {JournalConfig(<<>>, e, <<>>, TRUE) : e \in {<<>>, <<JNature>>}}
    /\ jop = "new"
    /\ jname = <<>>
    /\ jtier = None
    /\ jinfo = NoInfo
    /\ jpapers = <<>>
    /\ jargs = NoArgs
    /\ jfiltered = <<>>

\* the bot after construction: an empty database, nothing posted
GInit ==
    /\ filter_returns \in {"list", "pair"}
    /\ channel = <<>>
    /\ gskipped = 0
    /\ gout = "new"

\* a bot that runs no digest
GIdle ==
    /\ filter_returns = "list"
    /\ channel = <<>>
    /\ gskipped = 0
    /\ gout = "new"

\* the papers of a list that format_digest lists, in the order of its sections
DigestListed(ps) == DigestSections(ps).journal_papers \o DigestSections(ps).preprint_papers

\* post_papers, up to the except clause: the run fails in fetch_all, in the journal
\* filter step, in save_papers or, the papers saved, in chat_postMessage, and posts
\* the error message
RunFails ==
    /\ Len(channel) < MaxRuns
    /\ \/ /\ gout' = "fetch raised"
          /\ gskipped' = 0
          /\ UNCHANGED rows
       \/ \E fetched \in FetchedLists :
          LET step == JournalFilterStep(filter_returns, jconfig, fetched)
          IN  \/ /\ step.raised
                 /\ gout' = "unpack raised"
                 /\ gskipped' = 0
                 /\ UNCHANGED rows
              \/ /\ ~step.raised
                 /\ \E scored \in LLMFilterOutcomes(step.papers) :
                       LET paper_dois == PaperDois(scored)
                           existing_dois == get_existing_dois(rows, paper_dois)
                           new_papers == NewPapers(scored, existing_dois)
                           saved == save_papers(rows, new_papers)
                       IN  /\ gskipped' = Len(scored) - Len(new_papers)
                           /\ rows' = saved.rows
                           /\ gout' = IF saved.raised THEN "save raised" ELSE "post raised"
    /\ channel' = Append(channel, <<>>)
    /\ UNCHANGED <<dop, dpapers, dids, ddois, dfound>>
    /\ UNCHANGED jvars
    /\ GFrame

\* post_papers, through to the message: the papers that are new are saved, and the
\* digest, one message for so few papers, shows those of them that format_digest lists
RunPosts ==
    /\ Len(channel) < MaxRuns
    /\ \E fetched \in FetchedLists :
          LET step == JournalFilterStep(filter_returns, jconfig, fetched)
          IN  /\ ~step.raised
              /\ \E scored \in LLMFilterOutcomes(step.papers) :
                    LET paper_dois == PaperDois(scored)
                        existing_dois == get_existing_dois(rows, paper_dois)
                        new_papers == NewPapers(scored, existing_dois)
                        saved == save_papers(rows, new_papers)
                    IN  /\ ~saved.raised
                        /\ gskipped' = Len(scored) - Len(new_papers)
                        /\ rows' = saved.rows
                        /\ channel' = Append(channel, DigestListed(new_papers))
    /\ gout' = "posted"
    /\ UNCHANGED <<dop, dpapers, dids, ddois, dfound>>
    /\ UNCHANGED jvars
    /\ GFrame

GNext == RunFails \/ RunPosts

-----------------------------------------------------------------------------
(* PaperFetcher.fetch_all and PaperFetcher.search.                         *)

\* the keys of self.fetchers
fetchers == {"pubmed", "biorxiv", "arxiv"}

\* the names a caller may list in databases: the three sources and an unknown one
DatabaseNames == fetchers \cup {"scopus"}

\* what the fetch of one source may return: no paper, or one paper of that source
SourceLists(db) == {<<>>, <<[source |-> db, title |-> TitleT]>>}

\* a task that has not ended, one that returned a list, one that raised
Pending == [state |-> "pending", value |-> <<>>]
Returned(list) == [state |-> "list", value |-> list]
Raised == [state |-> "exception", value |-> <<>>]

\* for db in databases: if db in self.fetchers: tasks.append(...)
RECURSIVE TasksOf(_)
TasksOf(dbs) ==
    IF dbs = <<>> THEN <<>>
    ELSE (IF Head(dbs) \in fetchers THEN <<Head(dbs)>> ELSE <<>>) \o TasksOf(Tail(dbs))

\* asyncio.gather(*tasks) without return_exceptions: the first exception is raised
\* to the caller
gather_raising(rs) ==
    IF \E i \in 1..Len(rs) : rs[i].state = "exception"
    THEN [raised |-> TRUE, results |-> <<>>]
    ELSE [raised |-> FALSE, results |-> rs]

\* asyncio.gather(*tasks, return_exceptions=True): the results in the order of the
\* tasks, an exception standing where its task raised
gather(rs) == [raised |-> FALSE, results |-> rs]

\* the loop over results: the lists are concatenated, an exception is logged
RECURSIVE ExtendAll(_)
ExtendAll(rs) ==
    IF rs = <<>> THEN <<>>
    ELSE (IF Head(rs).state = "list" THEN Head(rs).value ELSE <<>>) \o ExtendAll(Tail(rs))

\* a fetcher nothing is asked of
FInit ==
    /\ fop = "none"
    /\ fdatabases = <<>>
    /\ ftasks = <<>>
    /\ fresults = <<>>
    /\ fpapers = <<>>
    /\ fpc = "idle"

\* fetch_all(keywords, databases, ...) or search(query, databases, ...) is called: one
\* task per known database is created, and awaited together
FetchCall ==
    /\ fpc = "idle"
    /\ fop' \in {"fetch_all", "search"}
    /\ \E dbs \in SeqsUpTo(DatabaseNames, MaxDatabases) :
          /\ fdatabases' = dbs
          /\ ftasks' = TasksOf(dbs)
          /\ fresults' = [i \in 1..Len(TasksOf(dbs)) |-> Pending]
    /\ fpc' = "gather"
    /\ UNCHANGED fpapers
    /\ FFrame

\* one of the tasks ends, in any order: its source returns a list or raises
TaskEnds ==
    /\ fpc = "gather"
    /\ \E i \in 1..Len(ftasks) :
          /\ fresults[i] = Pending
          /\ \E r \in {Raised} \cup {Returned(l) : l \in SourceLists(ftasks[i])} :
                fresults' = [fresults EXCEPT ![i] = r]
    /\ UNCHANGED <<fop, fdatabases, ftasks, fpapers, fpc>>
    /\ FFrame

\* all tasks have ended: gather returns (or raises) and the call returns the papers
GatherEnds ==
    /\ fpc = "gather"
    /\ \A i \in 1..Len(ftasks) : fresults[i] # Pending
    /\ LET g == gather(fresults)
       IN  IF g.raised
           THEN fpc' = "raised" /\ fpapers' = <<>>
           ELSE fpc' = "returned" /\ fpapers' = ExtendAll(g.results)
    /\ UNCHANGED <<fop, fdatabases, ftasks, fresults>>
    /\ FFrame

FNext == FetchCall \/ TaskEnds \/ GatherEnds

-----------------------------------------------------------------------------
(* /papersubscribe: the handlers of one user, which run as threads, and the *)
(* row of the user in user_preferences.                                     *)

\* UserPreference(user_id, subscribed_keywords, preferred_journals), of the one user;
\* the keywords as a set, list(set(...)) giving them no order
UserPreference(subscribed_keywords, preferred_journals) ==
    [subscribed_keywords |-> subscribed_keywords, preferred_journals |-> preferred_journals]

\* the keyword lists of the commands: [k.strip() for k in keywords.split(",") if k.strip()]
CommandKeywords == (SUBSET {"k1", "k2"}) \ {{}}

\* the rows the user may have before the commands: none, or one
StoredBefore ==
    {None} \cup {Some(UserPreference(ks, js)) : ks \in SUBSET {"k0"}, js \in {<<>>, <<JNature>>}}

\* Database.get_user_preference: the row of the user, or None
get_user_preference(row) == row

\* Database.save_user_preference: INSERT ... ON CONFLICT(user_id) DO UPDATE SET
save_user_preference(row, pref) == Some(pref)

\* current_keywords, all_keywords and the UserPreference the handler saves
SubscribedPreference(pref, new_keywords) ==
    LET current_keywords == IF pref # None THEN pref[1].subscribed_keywords ELSE {}
        all_keywords == current_keywords \cup new_keywords
    IN  UserPreference(all_keywords, IF pref # None THEN pref[1].preferred_journals ELSE <<>>)

\* no command under way, no row
UIdle ==
    /\ user_preference = None
    /\ stored_before = None
    /\ hpc = [h \in Callers |-> "idle"]
    /\ hkeywords = [h \in Callers |-> {}]
    /\ hpref = [h \in Callers |-> None]

\* no command under way, the row of the user as it was left
UInit ==
    /\ user_preference \in StoredBefore
    /\ stored_before = user_preference
    /\ hpc = [h \in Callers |-> "idle"]
    /\ hkeywords = [h \in Callers |-> {}]
    /\ hpref = [h \in Callers |-> None]

\* a handler takes a command with keywords and reads the row of the user
SubscribeRead(h) ==
    /\ hpc[h] = "idle"
    /\ \E new_keywords \in CommandKeywords :
          hkeywords' = [hkeywords EXCEPT ![h] = new_keywords]
    /\ hpref' = [hpref EXCEPT ![h] = get_user_preference(user_preference)]
    /\ hpc' = [hpc EXCEPT ![h] = "read"]
    /\ UNCHANGED <<user_preference, stored_before>>
    /\ UFrame

\* the handler saves the keywords it read together with those of its command
SubscribeSave(h) ==
    /\ hpc[h] = "read"
    /\ user_preference' =
          save_user_preference(user_preference, SubscribedPreference(hpref[h], hkeywords[h]))
    /\ hpc' = [hpc EXCEPT ![h] = "done"]
    /\ UNCHANGED <<stored_before, hkeywords, hpref>>
    /\ UFrame

UNext == \E h \in Callers : SubscribeRead(h) \/ SubscribeSave(h)

-----------------------------------------------------------------------------
(* The specifications.                                                     *)

\* a query is typed; the scorer and the search engine are not in use
InitQuery == QInit /\ LInit /\ SIdle /\ CInit /\ JIdle /\ DInit /\ GIdle /\ FInit /\ BInit
    /\ UIdle

\* the parser alone: a query is typed, parsed and matched against a text
SpecQuery == InitQuery /\ [][QNext]_vars

\* the scorer after construction; the parser and the search engine are not in use
InitScore == QIdle /\ LInit /\ SIdle /\ CInit /\ JIdle /\ DInit /\ GIdle /\ FInit /\ BInit
    /\ UIdle

\* filter_papers and score_paper, with responses of up to MaxResp tokens
SpecScore ==
    /\ InitScore
    /\ [][StartFilter \/ StartSingle \/ OracleCall(MaxResp) \/ SingleReturn
          \/ BatchReturn]_vars

\* score_papers over several batches, with responses of up to MaxShortResp tokens
SpecBatches ==
    /\ InitScore
    /\ [][StartScore \/ OracleCall(MaxShortResp) \/ BatchReturn]_vars

\* filter_papers as the digest run and the search handler call it, with responses of
\* up to MaxFilterResp tokens
SpecFilter ==
    /\ InitScore
    /\ [][StartFilter \/ StartSearchFilter \/ OracleCall(MaxFilterResp) \/ BatchReturn]_vars

\* the search engine after construction; the parser and the scorer are not in use
InitSearch == QIdle /\ LInit /\ SInit /\ CInit /\ JIdle /\ DInit /\ GIdle /\ FInit /\ BInit
    /\ UIdle

\* the handlers read the lazily built handles, in any interleaving
InitLazy == QIdle /\ LInit /\ SIdle /\ CInit /\ JIdle /\ DInit /\ GIdle /\ FInit /\ BInit
    /\ UIdle

SpecLazy == InitLazy /\ [][CNext]_vars

\* one call of search on an engine as it was constructed
SpecSearch == InitSearch /\ [][Search]_vars

\* a journal filter after construction; nothing else is in use
InitJournal == QIdle /\ LInit /\ SIdle /\ CInit /\ JInit /\ DInit /\ GIdle /\ FInit /\ BInit
    /\ UIdle

\* one call of get_journal_tier or of filter_papers on a journal filter
SpecJournal == InitJournal /\ [][JNext]_vars

\* a database after construction; nothing else is in use
InitStore == QIdle /\ LInit /\ SIdle /\ CInit /\ JIdle /\ DInit /\ GIdle /\ FInit /\ BInit
    /\ UIdle

\* the operations of the database on the table papers, one after another
SpecStore == InitStore /\ [][DNext]_vars

\* a bot after construction, with the journal configuration it was given
InitDigest == QIdle /\ LInit /\ SIdle /\ CInit /\ JDigest /\ DInit /\ GInit /\ FInit /\ BInit
    /\ UIdle

\* digest runs, one after another
SpecDigest == InitDigest /\ [][GNext]_vars

\* a query of terms chained by AND, OR and NOT
InitChain == QChain /\ LInit /\ SIdle /\ CInit /\ JIdle /\ DInit /\ GIdle /\ FInit /\ BInit
    /\ UIdle

\* the parse of a query of chained terms
SpecChain == InitChain /\ [][Parse]_vars

\* a formatter that has formatted nothing
InitFormat == QIdle /\ LInit /\ SIdle /\ CInit /\ JIdle /\ DInit /\ GIdle /\ FInit /\ BInit
    /\ UIdle

\* a digest is formatted, split and posted message by message
SpecFormat == InitFormat /\ [][BNext]_vars

\* the row of a user, and handlers with no command yet
InitSubscribe ==
    QIdle /\ LInit /\ SIdle /\ CInit /\ JIdle /\ DInit /\ GIdle /\ FInit /\ BInit /\ UInit

\* /papersubscribe commands of one user, handled at the same time
SpecSubscribe == InitSubscribe /\ [][UNext]_vars

\* a paper fetcher after construction; nothing else is in use
InitFetch == QIdle /\ LInit /\ SIdle /\ CInit /\ JIdle /\ DInit /\ GIdle /\ FInit /\ BInit
    /\ UIdle

\* one call of fetch_all or search, its tasks ending in any order
SpecFetch == InitFetch /\ [][FNext]_vars

-----------------------------------------------------------------------------
(* Claims about BooleanQueryParser.                                        *)

AnyPresent(terms, t) == \E k \in 1..Len(terms) : IsSubstr(terms[k], Lower(t))

AllPresent(terms, t) == \A k \in 1..Len(terms) : IsSubstr(terms[k], Lower(t))

\* C1: matches(q, t) is true if and only if no must_not term is a substring of
\* the lower-cased t, every must term is one, and must is non-empty or should
\* is empty or some should term is one; the empty query matches every text.
C1_MatchesIff ==
    qop = "matches" =>
        /\ matched <=> /\ ~AnyPresent(parsed.must_not, text)
                       /\ AllPresent(parsed.must, text)
                       /\ \/ parsed.must # <<>>
                          \/ parsed.should = <<>>
                          \/ AnyPresent(parsed.should, text)
        /\ parsed = EmptyParsed => matched

\* C1's case: a query with must and should terms matches a text that holds
\* its must term and none of its should terms
C1_Witness ==
    /\ qop = "matches"
    /\ parsed.must # <<>>
    /\ parsed.should # <<>>
    /\ ~AnyPresent(parsed.should, text)
    /\ matched

\* a lexeme that parse is to consume as an operator
IsKeyword(l) == ~l.quoted /\ Upper(l.body) \in {kwAND, kwOR, kwNOT}

\* the terms a query is typed with: its words that are no keywords and its
\* quoted phrases, lower-cased, in order
TypedTerms(ls) ==
    LET keep == SelectSeq(ls, LAMBDA l : ~IsKeyword(l))
    IN  [k \in 1..Len(keep) |-> Lower(keep[k].body)]

\* C2: after parse every word of the query that is no keyword and every quoted
\* phrase is, lower-cased, in exactly one of must, should and must_not: each
\* term is in the three lists together as often as the query holds it.
C2_EveryTermInOneList ==
    qop = "parse" =>
        LET placed == parsed.must \o parsed.should \o parsed.must_not
            typed == TypedTerms(qlex)
        IN  \A x \in {typed[k] : k \in 1..Len(typed)}
                     \cup {placed[k] : k \in 1..Len(placed)} :
                Count(placed, x) = Count(typed, x)

-----------------------------------------------------------------------------
(* Claims about LLMFilter.                                                 *)

\* score_papers or filter_papers has returned
Scored == lpc = "done" /\ mode \in {"score", "filter"}

\* the papers of the batch the pending reply belongs to
ReplyBatch == BatchAt(papers, pos, batch_size)

\* the results the step that handles the pending reply adds
NewResults == SubSeq(results', Len(results) + 1, Len(results'))

\* C3: the parser of a batch response returns one RelevanceResult per paper of
\* the batch, the i-th for the i-th paper, so that score_papers returns
\* len(papers) results in the order of its input.
C3_OneResultPerPaper ==
    Scored =>
        /\ Len(results) = Len(papers)
        /\ \A i \in 1..Len(results) : results[i].paper = papers[i]

\* C4: every score of a RelevanceResult, and every relevance_score that is set
\* on a paper, lies in [0, 100].
C4_ScoresInRange ==
    /\ \A i \in 1..Len(results) : results[i].score \in MIN_SCORE..MAX_SCORE
    /\ \A p \in PaperIds :
          relevance_score[p] # None => relevance_score[p][1] \in MIN_SCORE..MAX_SCORE

\* what C5 asks of the step that handles the reply of one batch
C5_BatchStep ==
    /\ SubSeq(results', 1, Len(results)) = results
    /\ lpc' \in {"call", "done"}
    /\ IF reply.fail
       THEN /\ Len(NewResults) = Len(ReplyBatch)
            /\ \A i \in 1..Len(ReplyBatch) :
                  /\ NewResults[i].paper = ReplyBatch[i]
                  /\ NewResults[i].score = 50
                  /\ IsSubstr(reply.err, NewResults[i].explanation)
       ELSE LET p == _parse_batch_response(reply.content, ReplyBatch)
            IN  ~p.raised => NewResults = p.results

\* C5: score_papers returns whichever oracle calls fail; every paper of a batch
\* whose call failed gets the score 50 and an explanation that embeds the
\* text of the error, and the results of every other batch are those parsed
\* from the response to that batch, whatever happened to the batches before.
C5_FailureIsolated ==
    [][(lpc = "reply" /\ mode = "score") => C5_BatchStep]_vars

\* C5 happens: two batches, the call of one failed and that of the other did
\* not, and score_papers has returned
C5_Witness ==
    /\ Scored
    /\ mode = "score"
    /\ Len(papers) > batch_size
    /\ failed # {}
    /\ \E k \in 1..Len(papers) : papers[k] \notin failed
    /\ \A i \in 1..Len(results) :
          results[i].paper \in failed <=> results[i].via = "error"

\* the JSON array between the first [ and the last ] of a text
ArrayIn(toks) ==
    LET start == FindFrom(toks, "LB", 1)
        end == RFind(toks, "RB")
    IN  /\ start # 0
        /\ end > start
        /\ JsonScan(SubSeq(toks, start + 1, end - 1), 1, 0, <<>>).ok

\* a text without a JSON array, in it or in its code block, without a
\* brace-delimited JSON object and without a match of a score pattern
NothingParseable(content) ==
    /\ ~ArrayIn(content)
    /\ ~ArrayIn(CleanedContent(content))
    /\ \A k \in 1..Len(content) :
          content[k] \notin (ObjectTokens \ {"OBad"}) \cup LineTokens

\* what C6 asks of the step that handles the response to one batch
C6_ParseStep ==
    /\ lpc' \in {"call", "done"}
    /\ Len(NewResults) >= 1
    /\ NothingParseable(reply.content) =>
          /\ Len(NewResults) = Len(ReplyBatch)
          /\ \A i \in 1..Len(ReplyBatch) :
                /\ NewResults[i].paper = ReplyBatch[i]
                /\ NewResults[i].score = 50
                /\ NewResults[i].explanation = UnableToParseText

\* C6: whatever the text of the response, parsing it raises nothing to the
\* caller of score_papers: the batch gets its results; and a text without a
\* parseable JSON array, a parseable brace-delimited object or a match of a
\* score pattern gives every paper of the batch the score 50.0 and the
\* explanation "Unable to parse LLM response".
C6_ParseNeverRaises ==
    [][(lpc = "reply" /\ mode = "filter" /\ ~reply.fail) => C6_ParseStep]_vars

\* C6 happens: the response to a batch of two papers or more was handled and
\* every paper of the batch got the final fallback
C6_Witness ==
    /\ Scored
    /\ Len(papers) >= 2
    /\ Len(results) = Len(papers)
    /\ \A i \in 1..Len(results) :
          /\ results[i].via = "unparseable"
          /\ results[i].explanation = UnableToParseText

\* C7: a score that a regex fallback extracts from the text, in batch mode and
\* in single-paper mode, is clamped into [0, 100] before it is returned.
C7_RegexScoresClamped ==
    \A i \in 1..Len(results) :
        results[i].via = "regex" => results[i].score \in MIN_SCORE..MAX_SCORE

\* the position of a paper in the list that was passed
PaperIndex(p) == CHOOSE i \in 1..Len(papers) : papers[i] = p

\* C8: filter_papers returns the papers whose result has a score of min_score
\* or more, and no other paper, each with relevance_score and
\* relevance_explanation set from its own result, by non-increasing
\* relevance_score.
C8_FilterExact ==
    (lpc = "done" /\ mode = "filter") =>
        /\ Len(results) = Len(papers)
        /\ \A i \in 1..Len(papers) :
              Count(filtered, papers[i]) = IF results[i].score >= min_score THEN 1 ELSE 0
        /\ \A k \in 1..Len(filtered) :
              /\ relevance_score[filtered[k]] =
                    Some(results[PaperIndex(filtered[k])].score)
              /\ relevance_explanation[filtered[k]] =
                    Some(results[PaperIndex(filtered[k])].explanation)
        /\ \A k \in 1..(Len(filtered) - 1) :
              relevance_score[filtered[k]][1] >= relevance_score[filtered[k + 1]][1]

\* the statements that give a paper the score 50 for want of a better one: a
\* failed call, an unparseable response, a paper the response does not cover
FallbackVia == {"error", "unparseable", "content_default", "not_scored", "regex_default"}

\* C9: every explanation that goes with a fallback score of 50 is an error
\* explanation for SlackFormatter, so that the relevance section of the paper
\* is not rendered.
C9_FallbacksAreErrors ==
    \A i \in 1..Len(results) :
        results[i].via \in FallbackVia =>
            /\ _is_error_explanation(Some(results[i].explanation))
            /\ ~RelevanceShown(Some(results[i].score), Some(results[i].explanation))

-----------------------------------------------------------------------------
(* Claims about SearchEngine.                                              *)

\* the paper meets every field of the filters that is set
MeetsFilters(p, f) ==
    /\ f.authors # None => AuthorsTest(p, f.authors[1])
    /\ f.date_from # None => DateFromTest(p, f.date_from[1])
    /\ f.date_to # None => DateToTest(p, f.date_to[1])
    /\ f.title_keywords # None => TitleKeywordsTest(p, f.title_keywords[1])
    /\ f.abstract_keywords # None => AbstractKeywordsTest(p, f.abstract_keywords[1])
    /\ f.exclude_terms # None => ExcludeTermsTest(p, f.exclude_terms[1])
    /\ f.journals # None => JournalsTest(p, f.journals[1])
    /\ f.sources # None => SourcesTest(p, f.sources[1])
    /\ f.min_relevance_score # None =>
          /\ p.relevance_score # None
          /\ p.relevance_score[1] >= f.min_relevance_score[1]

\* the paper is one that the search is for
Wanted(id) ==
    /\ matches(parse(search_query), TitleAbstract(Catalogue[id]))
    /\ search_filters # None => MeetsFilters(Catalogue[id], search_filters[1])

\* search re-ranked what it had filtered
Reranked == use_semantic /\ semantic_search # "none"

C11_OneHistoryEntry ==
    spc = "done" =>
        /\ Len(history) = 1
        /\ history[1].query = search_query
        /\ history[1].user_id = user_id
        /\ history[1].result_count = Len(returned)

\* the papers search hands to the ranker
ToRank == SelectSeq(search_papers, Wanted)

\* C12: when the embedding model cannot be loaded, or encoding raises,
\* SemanticSearch.search does not raise but returns the first top_k papers in
\* their order, each with the score 1.0, and the search that called it
\* returns a result.
C12_RankerNeverRaises ==
    /\ spc # "raised"
    /\ (spc = "done" /\ Reranked /\ semantic_search = "unavailable") =>
          /\ ranking = [k \in 1..Len(Take(ToRank, top_k)) |-> <<ToRank[k], 1>>]
          /\ returned = Take(ToRank, top_k)

-----------------------------------------------------------------------------
(* Claims about the lazily built handles.                                  *)

\* C13: whatever the interleaving of the callers that share one LLMFilter or
\* one SemanticSearch, the oracle client and the embedding model are
\* constructed at most once.
C13_BuiltAtMostOnce == client_built <= 1 /\ model_built <= 1

-----------------------------------------------------------------------------
(* More claims about BooleanQueryParser.                                   *)

\* the k-th lexeme of the query is a term with no operator right before it,
\* and no OR after it that could move it out of must
PlainTerm(k) ==
    /\ ~IsKeyword(qlex[k])
    /\ k = 1 \/ ~IsKeyword(qlex[k - 1])
    /\ \A j \in (k + 1)..Len(qlex) : qlex[j].quoted \/ Upper(qlex[j].body) # kwOR

\* C14: parse places in must every term that no operator keyword precedes
\* immediately, the first token and a token that follows another term,
\* whatever operators stand earlier in the query.
C14_PlainTermsInMust ==
    qop = "parse" =>
        \A k \in 1..Len(qlex) :
            PlainTerm(k) =>
                \E i \in 1..Len(parsed.must) : parsed.must[i] = Lower(qlex[k].body)

-----------------------------------------------------------------------------
(* Claims about JournalFilter.                                             *)

\* the tiers that list an entry equal to the name, both case-folded
ExactTiers(name) ==
    {t \in 1..Len(JOURNAL_TIERS) :
        \E entry \in LoweredTier[t] : entry = Lower(name)}

\* the tiers that list an entry which contains the name or is contained in it
ContainingTiers(name) ==
    {t \in 1..Len(JOURNAL_TIERS) :
        \E entry \in LoweredTier[t] :
            IsSubstr(Lower(name), entry) \/ IsSubstr(entry, Lower(name))}

\* C15: get_journal_tier gives the tier of the tier-list entry that equals the
\* case-folded name when there is one; otherwise the tier of the first list, in the
\* order tier1, tier2, ml, preprints, with an entry that contains the name or is
\* contained in it; otherwise no tier.
C15_TierOfName ==
    jop = "get_journal_tier" =>
        IF ExactTiers(jname) # {}
        THEN \A t \in ExactTiers(jname) : jtier = Some(JOURNAL_TIERS[t].tier)
        ELSE IF ContainingTiers(jname) # {}
        THEN \E t \in ContainingTiers(jname) :
                /\ \A u \in ContainingTiers(jname) : t <= u
                /\ jtier = Some(JOURNAL_TIERS[t].tier)
        ELSE jtier = None

\* C15 witness: "Nature Methods" holds the tier1 entry "Nature" and is itself an
\* entry of tier2, and tier2 is what it gets
C15_NatureMethodsIsTier2 ==
    jop = "get_journal_tier" /\ jname = JNatureMethods /\ jtier = Some(tier2)

\* the exclude list a call of filter_papers runs with: the argument, else the config's
ExcludeList ==
    IF jargs.exclude_journals # None THEN jargs.exclude_journals[1] ELSE jconfig.exclude

\* the journal, case-folded, is equal to, contains or is contained in an entry
MatchesEntry(journal, entries) ==
    \E k \in 1..Len(entries) :
        \/ Lower(entries[k]) = Lower(journal)
        \/ IsSubstr(Lower(entries[k]), Lower(journal))
        \/ IsSubstr(Lower(journal), Lower(entries[k]))

\* the papers of the list whose journal matches no entry of the exclude list
NotExcluded ==
    LET free(p) == ~MatchesEntry(p.journal, ExcludeList)
    IN  SelectSeq(jpapers, free)

\* the call runs under the default configuration: no include list, no tiers,
\* show_preprints on
DefaultPolicy ==
    /\ jconfig.include = <<>> /\ jargs.include_journals = None
    /\ jconfig.tiers = <<>> /\ jargs.tiers = None
    /\ jconfig.show_preprints /\ ~jargs.passes_show_preprints

\* C16: with the default configuration (no include list, no tiers, show_preprints
\* on) filter_papers is exclude-only: it returns every paper whose journal matches
\* no exclusion entry, papers of journals of no tier included.
C16_ExcludeOnlyByDefault ==
    (jop = "filter_papers" /\ DefaultPolicy) => jfiltered = NotExcluded

\* the include list and the tiers a call of filter_papers runs with
IncludeList ==
    IF jargs.include_journals # None THEN jargs.include_journals[1] ELSE jconfig.include

TierList == IF jargs.tiers # None THEN jargs.tiers[1] ELSE jconfig.tiers

\* show_preprints is on: as the call says when it says so, else as configured
ShowPreprintsOn ==
    IF jargs.passes_show_preprints /\ jargs.show_preprints # None
    THEN jargs.show_preprints[1]
    ELSE jconfig.show_preprints

\* the journal, case-folded, is equal to, contains or is contained in an entry of
\* the tier with this name
MatchesTier(journal, tier) ==
    \E t \in 1..Len(JOURNAL_TIERS) :
        /\ JOURNAL_TIERS[t].tier = Lower(tier)
        /\ \E entry \in LoweredTier[t] :
               \/ entry = Lower(journal)
               \/ IsSubstr(entry, Lower(journal))
               \/ IsSubstr(Lower(journal), entry)

\* the papers of the list that match a selected tier, the include list or, when
\* show_preprints is on, the preprint list, and that match no exclusion entry
IncludedNotExcluded ==
    LET pass(p) ==
            /\ \/ \E i \in 1..Len(TierList) : MatchesTier(p.journal, TierList[i])
               \/ MatchesEntry(p.journal, IncludeList)
               \/ ShowPreprintsOn /\ MatchesTier(p.journal, preprints)
            /\ ~MatchesEntry(p.journal, ExcludeList)
    IN  SelectSeq(jpapers, pass)

\* C17: when tiers or an include list are given, a paper passes filter_papers if and
\* only if its case-folded journal matches an entry of the selected tiers, of the
\* include list, or of the preprint list when show_preprints is on, and matches no
\* entry of the exclude list.
C17_IncludeGated ==
    (jop = "filter_papers" /\ (TierList # <<>> \/ IncludeList # <<>>)) =>
        jfiltered = IncludedNotExcluded

-----------------------------------------------------------------------------
(* Claims about Database.                                                  *)

\* a title that is empty or only whitespace
BlankTitle(title) == \A i \in 1..Len(title) : title[i] = " "

\* C18: save_paper of a paper whose title is empty or only whitespace returns 0 and
\* stores nothing: no row has such a title, so that paper_exists and
\* get_existing_dois report a DOI only for a row with a title, and save_papers
\* returns 0 at the position of each such paper.
C18_BlankTitleNotStored ==
    /\ \A i \in 1..Len(rows) : ~BlankTitle(rows[i].title)
    /\ dop \in {"save_paper", "save_papers"} =>
          \A k \in 1..Len(dpapers) : BlankTitle(dpapers[k].title) => dids[k] = 0
    /\ dop \in {"paper_exists", "get_existing_dois"} =>
          \A doi \in dfound :
              \E i \in 1..Len(rows) :
                  rows[i].doi = Some(doi) /\ ~BlankTitle(rows[i].title)

\* no two rows have the same non-empty DOI
OneRowPerDoi ==
    \A i, j \in 1..Len(rows) :
        (i # j /\ DoiTruthy(rows[i].doi)) => rows[i].doi # rows[j].doi

\* save_paper has just returned for a paper whose non-empty DOI was stored before
SavedStoredDoi ==
    /\ dop' = "save_paper"
    /\ DoiTruthy(dpapers'[1].doi)
    /\ \E i \in 1..Len(rows) : rows[i].doi = dpapers'[1].doi

\* C19: after any sequence of saves the store holds at most one row per non-empty
\* DOI, no stored row changes, and save_paper of a paper whose DOI is already
\* stored returns the id of the stored row and leaves the rows as they are (first
\* write wins).
C19_FirstWriteWins ==
    [][/\ OneRowPerDoi'
       /\ Len(rows') >= Len(rows)
       /\ \A i \in 1..Len(rows) : rows'[i] = rows[i]
       /\ SavedStoredDoi =>
             /\ rows' = rows
             /\ \E i \in 1..Len(rows) :
                   rows[i].doi = dpapers'[1].doi /\ dids' = <<rows[i].id>>]_vars

\* C19 witness: the paper titled U is saved under the DOI of the stored paper titled
\* T; the call returns the id of that row, which keeps its title and stays alone
C19_SecondWriteLost ==
    /\ dop = "save_paper"
    /\ dpapers = <<StorePaper(TitleU, Some(DoiA), JBioRxiv)>>
    /\ \E i \in 1..Len(rows) :
          /\ rows[i].doi = Some(DoiA) /\ rows[i].title = TitleT
          /\ dids = <<rows[i].id>>

-----------------------------------------------------------------------------
(* Claims about the digest run.                                            *)

\* the non-empty DOIs of the papers a run showed
ShownDois(shown) == {shown[k].doi[1] : k \in {k \in 1..Len(shown) : DoiTruthy(shown[k].doi)}}

-----------------------------------------------------------------------------
(* C21: a failing source does not fail the others.                         *)

\* the tasks that returned a paper, and the k-th of them in the order of the tasks
TasksWithPaper == {i \in 1..Len(ftasks) : fresults[i].state = "list" /\ fresults[i].value # <<>>}
KthWithPaper(k) == CHOOSE i \in TasksWithPaper : Cardinality({j \in TasksWithPaper : j < i}) = k - 1

\* C21: fetch_all and search never end with an exception of a source: the call
\* returns, and what it returns is, in the order of the tasks, the papers of exactly
\* the sources that returned a list; a source that raised contributes nothing.
C21_FailureIsolated ==
    /\ fpc # "raised"
    /\ fpc = "returned" =>
          /\ \A i \in 1..Len(ftasks) : fresults[i] # Pending
          /\ fpapers = [k \in 1..Cardinality(TasksWithPaper) |-> fresults[KthWithPaper(k)].value[1]]

\* C21 witness: a call returned the paper of one source although another source raised.
C21_OneRaisedOtherKept ==
    /\ fpc = "returned"
    /\ \E i, j \in 1..Len(ftasks) :
          /\ fresults[i] = Raised
          /\ fresults[j].state = "list" /\ fresults[j].value # <<>>
          /\ fpapers = fresults[j].value

-----------------------------------------------------------------------------
(* C23: the OR chains of parse.                                            *)

\* the reading of a query as chains: ors counts the ORs of the chain under way, group
\* holds its terms; negated is set by a NOT until the next term
ChainStart ==
    [must |-> <<>>, should |-> <<>>, must_not |-> <<>>, group |-> <<>>, ors |-> 0,
     negated |-> FALSE]

ChainStep(c, word) ==
    IF word = kwNOT THEN [c EXCEPT !.negated = TRUE]
    ELSE IF word = kwOR
         THEN IF c.ors = 0 /\ c.must # <<>>
              THEN [c EXCEPT !.ors = 1, !.group = <<c.must[Len(c.must)]>>,
                             !.must = SubSeq(c.must, 1, Len(c.must) - 1)]
              ELSE [c EXCEPT !.ors = c.ors + 1]
    ELSE IF word = kwAND
         THEN [c EXCEPT !.should = c.should \o c.group, !.group = <<>>, !.ors = 0]
    ELSE IF c.negated THEN [c EXCEPT !.must_not = Append(c.must_not, word), !.negated = FALSE]
    ELSE IF c.ors > 0 THEN [c EXCEPT !.group = Append(c.group, word)]
    ELSE [c EXCEPT !.must = Append(c.must, word)]

RECURSIVE ChainRead(_, _)
ChainRead(c, ls) ==
    IF ls = <<>> THEN c ELSE ChainRead(ChainStep(c, Head(ls).body), Tail(ls))

ChainParsed(ls) ==
    LET c == ChainRead(ChainStart, ls)
    IN  [must |-> c.must, should |-> c.should \o c.group, must_not |-> c.must_not]

\* the two queries of the claim
AOrBOrC == <<"a", " ", "O", "R", " ", "b", " ", "O", "R", " ", "c">>
AAndBOrC == <<"a", " ", "A", "N", "D", " ", "b", " ", "O", "R", " ", "c">>

\* C23: parse reads a query as chains: the first OR of a chain moves the last term of
\* must, if there is one, into the group of the chain, a later OR of the chain moves
\* nothing, AND appends the group to should and ends the chain, and the group left at
\* the end goes to should; 'a OR b OR c' gives should [a, b, c] and no must term,
\* 'a AND b OR c' gives must [a] and should [b, c].
C23_OrChains ==
    qop = "parse" =>
        /\ parsed = ChainParsed(qlex)
        /\ query = AOrBOrC =>
              parsed = [must |-> <<>>, should |-> << <<"a">>, <<"b">>, <<"c">> >>,
                        must_not |-> <<>>]
        /\ query = AAndBOrC =>
              parsed = [must |-> << <<"a">> >>, should |-> << <<"b">>, <<"c">> >>,
                        must_not |-> <<>>]

\* C23 witness: 'a b OR c OR' has been parsed: the first OR moved b, the second OR
\* found a in must and moved nothing.
C23_LaterOrMovesNothing ==
    /\ qop = "parse"
    /\ query = <<"a", " ", "b", " ", "O", "R", " ", "c", " ", "O", "R">>
    /\ parsed = [must |-> << <<"a">> >>, should |-> << <<"b">>, <<"c">> >>,
                 must_not |-> <<>>]

-----------------------------------------------------------------------------
(* C25 and C26: the configured show_preprints, the alias table.            *)

\* C25: filter_papers called with the paper list only filters by the configuration:
\* on a filter configured with show_preprints off and tiers [tier1], no paper of a
\* preprint server is returned.
C25_ConfiguredPreprintsOff ==
    (/\ jop = "filter_papers"
     /\ jargs = NoArgs
     /\ ~jconfig.show_preprints
     /\ jconfig.tiers = <<tier1>>) =>
        \A k \in 1..Len(jfiltered) : ~MatchesTier(jfiltered[k].journal, preprints)

\* C26: get_journal_info gives every abbreviation of the alias table the tier and
\* the icon it gives the canonical name the abbreviation is normalised to.
C26_AliasClassifiedAsCanonical ==
    (/\ jop = "get_journal_info"
     /\ \E i \in 1..Len(JOURNAL_ALIASES) : JOURNAL_ALIASES[i].alias = jname) =>
        /\ jinfo.tier = get_journal_info(jinfo.normalized_name).tier
        /\ jinfo.emoji = get_journal_info(jinfo.normalized_name).emoji

-----------------------------------------------------------------------------
(* C22 and C24: the blocks of a digest.                                    *)

\* the title blocks of a list of blocks that are about the paper titled k
TitleBlocksOf(bl, k) == {i \in 1..Len(bl) : bl[i].text = "title" /\ bl[i].paper = k}

\* C22: format_digest emits one title block for every paper of its input, whatever
\* their number and their journals.
C22_OneTitlePerPaper ==
    bpc # "idle" =>
        \A k \in 1..Len(bpapers) : Cardinality(TitleBlocksOf(digest_blocks, bpapers[k].title)) = 1

-----------------------------------------------------------------------------
(* C27 and C28: what one digest run delivers and persists.                 *)

-----------------------------------------------------------------------------
(* C29: scoring fails open.                                                *)

\* what C29 asks of the step that handles the reply of the batch of filter_papers
C29_FailStep ==
    (reply.fail \/ NothingParseable(reply.content)) =>
        \A i \in 1..Len(ReplyBatch) :
            /\ \E k \in 1..Len(results') :
                  results'[k].paper = ReplyBatch[i] /\ results'[k].score = DefaultScore
            /\ relevance_score'[ReplyBatch[i]] = Some(DefaultScore)
            /\ Count(filtered', ReplyBatch[i]) = 1

\* C29: when the oracle call of a batch failed or its response was unparseable,
\* every paper of the batch gets the fallback score 50 and is kept by filter_papers
\* whenever min_score is at most 50, as with the 50 of the digest run and the 30 of
\* the search handler.
C29_FailsOpen ==
    [][(lpc = "reply" /\ mode = "filter" /\ min_score <= DefaultScore) => C29_FailStep]_vars

\* C29 witness: the search handler's filter_papers, min_score 30, has returned both
\* papers of a batch whose response was unparseable, each with the score 50.
C29_UnparseableKept ==
    /\ lpc = "done"
    /\ mode = "filter"
    /\ min_score = SearchMinScore
    /\ Len(papers) = 2
    /\ filtered = papers
    /\ \A i \in 1..Len(results) : results[i].via = "unparseable" /\ results[i].score = DefaultScore
    /\ \A k \in 1..Len(papers) : relevance_score[papers[k]] = Some(DefaultScore)

-----------------------------------------------------------------------------
(* C30: concurrent /papersubscribe commands.                               *)

\* C30: once no /papersubscribe handler of the user is between its read and its
\* save, the stored subscription list holds every keyword of every command handled
\* and every keyword stored before, and the preferred journals are as before.
C30_NoKeywordLost ==
    (\A h \in Callers : hpc[h] # "read") =>
        /\ \A h \in Callers : hpc[h] = "done" =>
              /\ user_preference # None
              /\ hkeywords[h] \subseteq user_preference[1].subscribed_keywords
        /\ stored_before # None =>
              /\ user_preference # None
              /\ stored_before[1].subscribed_keywords
                    \subseteq user_preference[1].subscribed_keywords
              /\ user_preference[1].preferred_journals = stored_before[1].preferred_journals

====
